---------------------------- MODULE Spec2Model ----------------------------
(***************************************************************************)
(* Model of the benchmark harness of Performance-Evaluation, taken from    *)
(* src/CPU-cycle-operations/key-exc/non-pq/cycles-keygen_nonpq.c:          *)
(*   calculate_statistics  the outlier-robust statistics engine            *)
(*   plot_cycles           the chart handed to the plotting sink           *)
(*   main                  the sweep over the curves                       *)
(*   generate_ecdh_key     the two clock readings and their difference in  *)
(*                         nanoseconds, an unsigned 64-bit value kept as   *)
(*                         its eight bytes                                 *)
(* from src/CPU-cycle-operations/key-exc/pq/cycles-keygenEncDec_pq.c:      *)
(*   main and the three timed calls of the sweep over the Kyber variants   *)
(* and from src/CPU-cycle-operations/signature/pq/cycles-signverify-pq.c:  *)
(*   main, sign_xml and verify_signature of the sweep over the signature   *)
(*   algorithms,                                                           *)
(* and from src/Time-operations/key-exc/non-pq/time-keygen_nonpq.c:        *)
(*   calculate_statistics and plot_times, the copies that work on doubles. *)
(*                                                                         *)
(* C arrays are sequences; a C index k (0-based) is element k+1.           *)
(* A double is modelled by the exact rational it stands for, a record      *)
(* [n, d] in lowest terms with d >= 0; d = 0 is the IEEE result of a       *)
(* division by zero: n = 0 is NaN, n = 1 is +Inf.  The samples are         *)
(* integers far below 2^53, so every sum the code forms is exact.          *)
(* sqrt is kept symbolic: a standard deviation is the record               *)
(* [sqrt_of |-> r] of its radicand r.                                      *)
(***************************************************************************)
EXTENDS Integers, Sequences, FiniteSets, TLC

\* ------------------------------------------------------------- bounds
\* Longest sample array of the bounded statistics specification.
MaxLen == 7
\* Largest sample value of the bounded specifications.
MaxVal == 3

\* Largest iteration count of the bounded sweep specification.
MaxRuns == 3

\* ------------------------------------------------- program constants
\* #define NUM_ITERATIONS 50
NUM_ITERATIONS == 50
\* #define IGNORE_PERCENTAGE 0.2, in tenths
IGNORE_PERCENTAGE_TENTHS == 2
\* #define IQR_MULTIPLIER 1.5, in halves
IQR_MULTIPLIER_HALVES == 3
\* const char *curves[] = {"prime256v1", "secp384r1", "secp521r1"}
NUM_CURVES == 3

\* The sample values drawn: the two smallest and the two largest.
Samples ==
    {0, 1, MaxVal - 1, MaxVal}

VARIABLES
    pc,             \* position of main
    num_iterations, \* NUM_ITERATIONS, the iteration count the program is built with
    c,              \* main: the curve index
    i,              \* main: the iteration index
    ecdh_key,       \* main: EVP_PKEY *ecdh_key
    keygen_cycles,  \* main: unsigned long long keygen_cycles[NUM_ITERATIONS]
    keygen_mean,    \* main: double keygen_mean
    keygen_stddev,  \* main: double keygen_stddev
    stats,          \* the locals of the last calculate_statistics call
    printed,        \* the last summary written to stdout
    summaries,      \* the curves whose summary was written to stdout, in order
    chart,          \* what the last plot_cycles gave to plenv and plline
    charts,         \* the curves whose chart was written, in order
    stderr,         \* the messages written to stderr
    v,              \* cycles-keygenEncDec_pq.c main: the variant index
    kyber_key,      \* cycles-keygenEncDec_pq.c main: EVP_PKEY *kyber_key
    ciphertext,     \* cycles-keygenEncDec_pq.c main: unsigned char *ciphertext
    secret_enc,     \* cycles-keygenEncDec_pq.c main: unsigned char *secret_enc
    secret_dec,     \* cycles-keygenEncDec_pq.c main: unsigned char *secret_dec
    encaps_cycles,  \* cycles-keygenEncDec_pq.c main: encaps_cycles[NUM_ITERATIONS]
    decaps_cycles,  \* cycles-keygenEncDec_pq.c main: decaps_cycles[NUM_ITERATIONS]
    encaps_mean,    \* cycles-keygenEncDec_pq.c main: double encaps_mean
    encaps_stddev,  \* cycles-keygenEncDec_pq.c main: double encaps_stddev
    decaps_mean,    \* cycles-keygenEncDec_pq.c main: double decaps_mean
    decaps_stddev,  \* cycles-keygenEncDec_pq.c main: double decaps_stddev
    j,              \* cycles-signverify-pq.c main: the run index
    keys,           \* cycles-signverify-pq.c main: EVP_PKEY* keys[num_algorithms]
    signature,      \* cycles-signverify-pq.c main: unsigned char *signature
    sign_cycles,    \* cycles-signverify-pq.c main: sign_cycles[NUM_RUNS]
    verify_cycles,  \* cycles-signverify-pq.c main: verify_cycles[NUM_RUNS]
    keygen_times,   \* time-keygen_nonpq.c main: double keygen_times[NUM_ITERATIONS]
    start_time,     \* generate_ecdh_key: struct timespec start_time
    end_time,       \* generate_ecdh_key: struct timespec end_time
    elapsed_time_ns, \* generate_ecdh_key: unsigned long long elapsed_time_ns
    timeline,       \* history: the clock readings, calls and releases of the iteration
    live,           \* history: the objects allocated and not yet freed
    origin,         \* history: for every array slot, the run that wrote it
    log             \* history: the calls and outputs of the run so far, in order

\* the state of the two post-quantum programs and the history kept of them
others == <<v, kyber_key, ciphertext, secret_enc, secret_dec, encaps_cycles,
            decaps_cycles, encaps_mean, encaps_stddev, decaps_mean,
            decaps_stddev, j, keys, signature, sign_cycles, verify_cycles,
            keygen_times, start_time, end_time, elapsed_time_ns, timeline,
            live, origin, log>>

vars == <<pc, num_iterations, c, i, ecdh_key, keygen_cycles, keygen_mean,
          keygen_stddev, stats, printed, summaries, chart, charts, stderr,
          others>>

\* ------------------------------------------------------------ doubles
RECURSIVE GCD(_, _)
GCD(a, b) ==
    IF b = 0 THEN a ELSE GCD(b, a % b)

Abs(x) ==
    IF x < 0 THEN -x ELSE x

\* The double n/d, in lowest terms; x/0 is NaN for x = 0 and Inf otherwise.
Rat(n, d) ==
    LET g == GCD(Abs(n), Abs(d))
        s == IF d < 0 THEN -1 ELSE 1
    IN  IF g = 0 THEN [n |-> 0, d |-> 0]
        ELSE [n |-> (s * n) \div g, d |-> (s * d) \div g]

RatInt(k) ==
    [n |-> k, d |-> 1]

NaN ==
    [n |-> 0, d |-> 0]

IsNumber(r) ==
    r.d # 0

\* a + b and a - b over the least common denominator
RatAdd(a, b) ==
    IF a.d = 0 \/ b.d = 0 THEN (IF a = NaN \/ b = NaN THEN NaN ELSE Rat(a.n * b.d + b.n * a.d, 0))
    ELSE LET g == GCD(a.d, b.d)
         IN  Rat(a.n * (b.d \div g) + b.n * (a.d \div g), (a.d \div g) * b.d)

RatSub(a, b) ==
    RatAdd(a, [n |-> -b.n, d |-> b.d])

\* a * b, the common factors cancelled before the products are formed
RatMul(a, b) ==
    IF a = NaN \/ b = NaN THEN NaN
    ELSE LET g1 == GCD(Abs(a.n), b.d)
             g2 == GCD(Abs(b.n), a.d)
             h1 == IF g1 = 0 THEN 1 ELSE g1
             h2 == IF g2 = 0 THEN 1 ELSE g2
         IN  Rat((a.n \div h1) * (b.n \div h2), (a.d \div h2) * (b.d \div h1))

\* a / b: a times the reciprocal of b
RatDiv(a, b) ==
    RatMul(a, IF b.n < 0 THEN [n |-> -b.d, d |-> -b.n] ELSE [n |-> b.d, d |-> b.n])

\* a <= b on numbers (both denominators positive)
RatLeq(a, b) ==
    a.n * b.d <= b.n * a.d

\* sqrt(r), symbolic
Sqrt(r) ==
    [sqrt_of |-> r]

\* ---------------------------------------------- calculate_statistics
\* IgnoreRuns with the percentage shared between the two ends of the array:
\* num_runs * IGNORE_PERCENTAGE / 2
IgnoreRunsSharedBetweenEnds(num_runs) ==
    (num_runs * IGNORE_PERCENTAGE_TENTHS) \div 20

\* int ignore_runs = num_runs * IGNORE_PERCENTAGE;  (truncation of the product)
IgnoreRuns(num_runs) ==
    (num_runs * IGNORE_PERCENTAGE_TENTHS) \div 10

\* int effective_runs = num_runs - 2 * ignore_runs;
EffectiveRuns(num_runs, ignore_runs) ==
    num_runs - 2 * ignore_runs

\* TRUE, once value has been computed.  A loop is evaluated one half of its
\* index range after the other, the first half computed before the second
\* begins, which keeps the evaluation of a long loop shallow.
Evaluated(value) ==
    value = value

\* Swap without temp: sorted_cycles[ix] = sorted_cycles[jx]; and then
\* sorted_cycles[jx] = sorted_cycles[ix]; which by then is the same value
SwapWithoutTemp(a, ix, jx) ==
    [a EXCEPT ![ix + 1] = a[jx + 1]]

\* temp = sorted_cycles[ix]; sorted_cycles[ix] = sorted_cycles[jx]; ...
Swap(a, ix, jx) ==
    [a EXCEPT ![ix + 1] = a[jx + 1], ![jx + 1] = a[ix + 1]]

\* for (j = lo; j < hi; j++) if (sorted[ix] > sorted[j]) swap them
RECURSIVE SortInner(_, _, _, _)
SortInner(a, ix, lo, hi) ==
    IF lo >= hi THEN a
    ELSE IF hi = lo + 1 THEN (IF a[ix + 1] > a[lo + 1] THEN Swap(a, ix, lo) ELSE a)
    ELSE LET mid  == (lo + hi) \div 2
             half == SortInner(a, ix, lo, mid)
         IN  IF Evaluated(half) THEN SortInner(half, ix, mid, hi) ELSE half

\* for (i = lo; i < hi; i++) for (j = i + 1; j < num_runs; j++) ...
RECURSIVE SortOuter(_, _, _)
SortOuter(a, lo, hi) ==
    IF lo >= hi THEN a
    ELSE IF hi = lo + 1 THEN SortInner(a, lo, lo + 1, Len(a))
    ELSE LET mid  == (lo + hi) \div 2
             half == SortOuter(a, lo, mid)
         IN  IF Evaluated(half) THEN SortOuter(half, mid, hi) ELSE half

\* the copy of cycles[] into sorted_cycles[] with no sort after it
CopyOfCycles(cycles) ==
    cycles

\* the copy of cycles[] into sorted_cycles[] and the exchange sort
SortCycles(cycles) ==
    SortOuter(cycles, 0, Len(cycles) - 1)

\* Q1Index into a re-indexed trimmed copy, not the full sorted array
Q1IndexOfTrimmedCopy(ignore_runs, effective_runs) ==
    effective_runs \div 4

\* the index of Q1: ignore_runs + (effective_runs / 4)
Q1Index(ignore_runs, effective_runs) ==
    ignore_runs + (effective_runs \div 4)

\* Q3Index dividing before it multiplies: 3 * (effective_runs / 4)
Q3IndexDividedFirst(ignore_runs, effective_runs) ==
    ignore_runs + 3 * (effective_runs \div 4)

\* Q3Index rounding the quartile position up instead of down
Q3IndexRoundedUp(ignore_runs, effective_runs) ==
    ignore_runs + ((3 * effective_runs + 3) \div 4)

\* the index of Q3: ignore_runs + (3 * effective_runs / 4)
Q3Index(ignore_runs, effective_runs) ==
    ignore_runs + ((3 * effective_runs) \div 4)

\* sorted_cycles[k]; a read past the end of the array yields whatever is
\* in memory there (garbage)
ReadSorted(sorted, k, garbage) ==
    IF k < Len(sorted) THEN sorted[k + 1] ELSE garbage

\* the band without its two limits: > and < in place of >= and <=
InBandStrict(x, q1, q3, iqr) ==
    /\ 2 * x > 2 * q1 - IQR_MULTIPLIER_HALVES * iqr
    /\ 2 * x < 2 * q3 + IQR_MULTIPLIER_HALVES * iqr

\* sorted_cycles[i] >= q1 - IQR_MULTIPLIER * iqr &&
\* sorted_cycles[i] <= q3 + IQR_MULTIPLIER * iqr        (scaled by 2)
InBand(x, q1, q3, iqr) ==
    /\ 2 * x >= 2 * q1 - IQR_MULTIPLIER_HALVES * iqr
    /\ 2 * x <= 2 * q3 + IQR_MULTIPLIER_HALVES * iqr

\* first loop, from lo to hi - 1: sum += sorted_cycles[i] for the in-band i
RECURSIVE SumLoop(_, _, _, _, _, _, _)
SumLoop(sum, sorted, lo, hi, q1, q3, iqr) ==
    IF lo >= hi THEN sum
    ELSE IF hi = lo + 1
         THEN (IF InBand(sorted[lo + 1], q1, q3, iqr) THEN sum + sorted[lo + 1] ELSE sum)
    ELSE LET mid  == (lo + hi) \div 2
             half == SumLoop(sum, sorted, lo, mid, q1, q3, iqr)
         IN  IF Evaluated(half) THEN SumLoop(half, sorted, mid, hi, q1, q3, iqr) ELSE half

\* second loop, from lo to hi - 1: valid_runs++ for the in-band i
RECURSIVE CountLoop(_, _, _, _, _, _, _)
CountLoop(valid_runs, sorted, lo, hi, q1, q3, iqr) ==
    IF lo >= hi THEN valid_runs
    ELSE IF hi = lo + 1
         THEN (IF InBand(sorted[lo + 1], q1, q3, iqr) THEN valid_runs + 1 ELSE valid_runs)
    ELSE LET mid  == (lo + hi) \div 2
             half == CountLoop(valid_runs, sorted, lo, mid, q1, q3, iqr)
         IN  IF Evaluated(half) THEN CountLoop(half, sorted, mid, hi, q1, q3, iqr) ELSE half

\* (sorted_cycles[i] - *mean) * (sorted_cycles[i] - *mean)
SqDiff(x, mean) ==
    RatMul(RatSub(RatInt(x), mean), RatSub(RatInt(x), mean))

\* third loop, from lo to hi - 1: sum_sq_diff += (sorted_cycles[i] - *mean)^2
\* for the in-band i
RECURSIVE SqDiffLoop(_, _, _, _, _, _, _, _)
SqDiffLoop(sum_sq_diff, sorted, lo, hi, q1, q3, iqr, mean) ==
    IF lo >= hi THEN sum_sq_diff
    ELSE IF hi = lo + 1
         THEN (IF InBand(sorted[lo + 1], q1, q3, iqr)
               THEN RatAdd(sum_sq_diff, SqDiff(sorted[lo + 1], mean))
               ELSE sum_sq_diff)
    ELSE LET mid  == (lo + hi) \div 2
             half == SqDiffLoop(sum_sq_diff, sorted, lo, mid, q1, q3, iqr, mean)
         IN  IF Evaluated(half) THEN SqDiffLoop(half, sorted, mid, hi, q1, q3, iqr, mean) ELSE half

\* Sum with a sum that is never reset: the additions go on from the sum
\* the previous call left
SumCarried(sorted, num_runs, ignore_runs, q1, q3, iqr) ==
    SumLoop(IF stats.num_runs < 0 THEN 0 ELSE stats.sum, sorted, ignore_runs,
            num_runs - ignore_runs, q1, q3, iqr)

\* Sum without the band test: every value of the window is added
SumOfWindow(sorted, num_runs, ignore_runs, q1, q3, iqr) ==
    LET all == sorted[num_runs - ignore_runs] - sorted[ignore_runs + 1] + 1
    IN  SumLoop(0, sorted, ignore_runs, num_runs - ignore_runs,
                sorted[ignore_runs + 1], sorted[num_runs - ignore_runs], all)

\* double sum = 0.0; and lines 96-100
Sum(sorted, num_runs, ignore_runs, q1, q3, iqr) ==
    SumLoop(0, sorted, ignore_runs, num_runs - ignore_runs, q1, q3, iqr)

\* ValidRuns without the band test: the size of the window
ValidRunsOfWindow(sorted, num_runs, ignore_runs, q1, q3, iqr) ==
    num_runs - 2 * ignore_runs

\* ValidRuns with the loop running over the whole array, not the window
ValidRunsOfArray(sorted, num_runs, ignore_runs, q1, q3, iqr) ==
    CountLoop(0, sorted, 0, num_runs, q1, q3, iqr)

\* int valid_runs = 0; and lines 103-107
ValidRuns(sorted, num_runs, ignore_runs, q1, q3, iqr) ==
    CountLoop(0, sorted, ignore_runs, num_runs - ignore_runs, q1, q3, iqr)

\* *mean = sum / valid_runs;
Mean(sum, valid_runs) ==
    RatDiv(RatInt(sum), RatInt(valid_runs))

\* double sum_sq_diff = 0.0; and lines 111-115
SumSqDiff(sorted, num_runs, ignore_runs, q1, q3, iqr, mean) ==
    SqDiffLoop(RatInt(0), sorted, ignore_runs, num_runs - ignore_runs, q1, q3, iqr, mean)

\* StdDev with the sample divisor valid_runs - 1
StdDevSample(sum_sq_diff, valid_runs) ==
    Sqrt(RatDiv(sum_sq_diff, RatInt(valid_runs - 1)))

\* *std_dev = sqrt(sum_sq_diff / valid_runs);
StdDev(sum_sq_diff, valid_runs) ==
    Sqrt(RatDiv(sum_sq_diff, RatInt(valid_runs)))

\* the caller's array after a sort done in the caller's array itself
CallerArraySortedInPlace(cycles, sorted_cycles) ==
    sorted_cycles

\* lines 75-88: cycles[] is read once per element, into sorted_cycles[], and
\* every exchange of the sort is made in sorted_cycles[], an array of
\* calculate_statistics itself: the caller's array after the call
CallerArray(cycles, sorted_cycles) ==
    cycles

\* calculate_statistics(cycles, num_runs, &mean, &std_dev): every local,
\* both results and the caller's array as the call leaves it.  g1 and g3 are what a read past the end of sorted_cycles
\* finds (only num_runs = 0 reads there).
calculate_statistics(cycles, num_runs, g1, g3) ==
    LET ignore_runs    == IgnoreRuns(num_runs)
        effective_runs == EffectiveRuns(num_runs, ignore_runs)
        sorted_cycles  == SortCycles(cycles)
        q1_index       == Q1Index(ignore_runs, effective_runs)
        q3_index       == Q3Index(ignore_runs, effective_runs)
        q1             == ReadSorted(sorted_cycles, q1_index, g1)
        q3             == ReadSorted(sorted_cycles, q3_index, g3)
        iqr            == q3 - q1
        sum            == Sum(sorted_cycles, num_runs, ignore_runs, q1, q3, iqr)
        valid_runs     == ValidRuns(sorted_cycles, num_runs, ignore_runs, q1, q3, iqr)
        mean           == Mean(sum, valid_runs)
        sum_sq_diff    == SumSqDiff(sorted_cycles, num_runs, ignore_runs, q1, q3, iqr, mean)
    IN  [cycles         |-> CallerArray(cycles, sorted_cycles),
         num_runs       |-> num_runs,
         ignore_runs    |-> ignore_runs,
         effective_runs |-> effective_runs,
         sorted_cycles  |-> sorted_cycles,
         q1_index       |-> q1_index,
         q3_index       |-> q3_index,
         q1             |-> q1,
         q3             |-> q3,
         iqr            |-> iqr,
         sum            |-> sum,
         valid_runs     |-> valid_runs,
         mean           |-> mean,
         sum_sq_diff    |-> sum_sq_diff,
         std_dev        |-> StdDev(sum_sq_diff, valid_runs)]

\* the value of stats before any call
NoStats ==
    [num_runs |-> -1]

\* --------------------------------------------------------- plot_cycles
\* lines 145-148, from lo to hi - 1: x[i - ignore_runs] = i + 1;
\* y[i - ignore_runs] = cycles[i];   the points are those given to plline
RECURSIVE PlotPoints(_, _, _, _)
PlotPoints(points, cycles, lo, hi) ==
    IF lo >= hi THEN points
    ELSE IF hi = lo + 1 THEN Append(points, [x |-> lo + 1, y |-> cycles[lo + 1]])
    ELSE LET mid  == (lo + hi) \div 2
             half == PlotPoints(points, cycles, lo, mid)
         IN  IF Evaluated(half) THEN PlotPoints(half, cycles, mid, hi) ELSE half

\* lines 145-148, for i from lo to hi - 1: the index i - ignore_runs of
\* x[] and y[] that pass i writes
PlotWrites(lo, hi, ignore_runs) ==
    [k \in 1..(hi - lo) |-> (lo + k - 1) - ignore_runs]

\* lines 133-137, from lo to hi - 1: if (cycles[i] > max_cycles) max_cycles = cycles[i];
RECURSIVE MaxCycles(_, _, _, _)
MaxCycles(max_cycles, cycles, lo, hi) ==
    IF lo >= hi THEN max_cycles
    ELSE IF hi = lo + 1
         THEN (IF cycles[lo + 1] > max_cycles THEN cycles[lo + 1] ELSE max_cycles)
    ELSE LET mid  == (lo + hi) \div 2
             half == MaxCycles(max_cycles, cycles, lo, mid)
         IN  IF Evaluated(half) THEN MaxCycles(half, cycles, mid, hi) ELSE half

\* plot_cycles charting the sorted array
plot_cycles_sorted(cycles, n) ==
    LET ignore_runs == IgnoreRuns(n)
        sorted      == SortCycles(cycles)
        max_cycles  == MaxCycles(0, sorted, ignore_runs, n - ignore_runs)
    IN  [xmin   |-> ignore_runs + 1,
         xmax   |-> n - ignore_runs,
         ymin   |-> RatInt(0),
         ymax   |-> Rat(11 * max_cycles, 10),
         n      |-> n - 2 * ignore_runs,
         size   |-> n - 2 * ignore_runs,
         writes |-> PlotWrites(ignore_runs, n - ignore_runs, ignore_runs),
         points |-> PlotPoints(<<>>, sorted, ignore_runs, n - ignore_runs),
         cycles |-> cycles]

\* plot_cycles with the maximum taken over the whole array, the runs that
\* are not charted included
plot_cycles_max_of_array(cycles, n) ==
    LET ignore_runs == IgnoreRuns(n)
        max_cycles  == MaxCycles(0, cycles, 0, n)
    IN  [xmin   |-> ignore_runs + 1,
         xmax   |-> n - ignore_runs,
         ymin   |-> RatInt(0),
         ymax   |-> Rat(11 * max_cycles, 10),
         n      |-> n - 2 * ignore_runs,
         size   |-> n - 2 * ignore_runs,
         writes |-> PlotWrites(ignore_runs, n - ignore_runs, ignore_runs),
         points |-> PlotPoints(<<>>, cycles, ignore_runs, n - ignore_runs),
         cycles |-> cycles]

\* plot_cycles(cycles, curve, operation) with NUM_ITERATIONS = n: the axes
\* given to plenv, the length x[] and y[] are declared with, the indices of
\* x[] and y[] written, the line given to plline, and the caller's array as
\* the call leaves it (cycles[] is only read, lines 134-135 and 147)
plot_cycles(cycles, n) ==
    LET ignore_runs == IgnoreRuns(n)
        max_cycles  == MaxCycles(0, cycles, ignore_runs, n - ignore_runs)
    IN  [xmin   |-> ignore_runs + 1,
         xmax   |-> n - ignore_runs,
         ymin   |-> RatInt(0),
         ymax   |-> Rat(11 * max_cycles, 10),
         n      |-> n - 2 * ignore_runs,
         size   |-> n - 2 * ignore_runs,
         writes |-> PlotWrites(ignore_runs, n - ignore_runs, ignore_runs),
         points |-> PlotPoints(<<>>, cycles, ignore_runs, n - ignore_runs),
         cycles |-> cycles]

NoChart ==
    [n |-> -1]

\* ---------------------------------------------------------------- main
\* a double or array element not yet written
Uninitialised ==
    "uninitialised"

NULL ==
    "NULL"

\* the failures after which generate_ecdh_key calls exit(EXIT_FAILURE)
KeygenErrors ==
    {"Unknown curve name", "Failed to create EVP_PKEY_CTX for ECDH",
     "Failed to initialize keygen for ECDH", "Failed to set curve name",
     "Failed to generate ECDH key pair for curve"}

\* the failures of the provider set-up in main
ProviderErrors ==
    {"Failed to create OpenSSL library context", "Failed to load default provider"}

\* double keygen_stddev_percentage = (keygen_stddev / keygen_mean) * 100;
\* sqrt(v) / m for m >= 0 is sqrt(v / m^2); the factor 100 is kept beside it
StdDevPercentage(stddev, mean) ==
    [sqrt_of |-> RatDiv(stddev.sqrt_of, RatMul(mean, mean)), times |-> 100]

\* where the for loop over i starts: its body, or past it when it is empty
LoopEntry(n) ==
    IF 0 < n THEN "keygen" ELSE "calculate"

\* a struct timespec nothing has been read into
NoReading ==
    [tv_sec |-> -1, tv_nsec |-> -1]

\* the variables of time-keygen_nonpq.c and of the clock readings, at rest
ClockIdle ==
    /\ keygen_times = <<>>
    /\ start_time = NoReading
    /\ end_time = NoReading
    /\ elapsed_time_ns = <<>>

\* the variables a program does not have, at rest
OthersIdle ==
    /\ v = 0
    /\ kyber_key = NULL
    /\ ciphertext = NULL
    /\ secret_enc = NULL
    /\ secret_dec = NULL
    /\ encaps_cycles = <<>>
    /\ decaps_cycles = <<>>
    /\ encaps_mean = Uninitialised
    /\ encaps_stddev = Uninitialised
    /\ decaps_mean = Uninitialised
    /\ decaps_stddev = Uninitialised
    /\ j = 0
    /\ keys = <<>>
    /\ signature = NULL
    /\ sign_cycles = <<>>
    /\ verify_cycles = <<>>
    /\ ClockIdle
    /\ timeline = <<>>
    /\ live = {}
    /\ origin = <<>>
    /\ log = <<>>

Init ==
    /\ num_iterations \in 0..MaxRuns
    /\ pc = "load"
    /\ c = 0
    /\ i = 0
    /\ ecdh_key = NULL
    /\ keygen_cycles = [k \in 1..num_iterations |-> Uninitialised]
    /\ keygen_mean = Uninitialised
    /\ keygen_stddev = Uninitialised
    /\ stats = NoStats
    /\ printed = <<>>
    /\ summaries = <<>>
    /\ chart = NoChart
    /\ charts = <<>>
    /\ stderr = <<>>
    /\ OthersIdle

\* lines 163-178: the provider is loaded and the first curve begins
LoadProvider ==
    /\ pc = "load"
    /\ pc' = LoopEntry(num_iterations)
    /\ UNCHANGED <<num_iterations, c, i, ecdh_key, keygen_cycles, keygen_mean,
                   keygen_stddev, stats, printed, summaries, chart, charts, stderr>>
    /\ UNCHANGED others

\* lines 165-174: the library context or the provider cannot be had
LoadProviderFails ==
    /\ pc = "load"
    /\ \E msg \in ProviderErrors : stderr' = Append(stderr, [msg |-> msg])
    /\ pc' = "exit_failure"
    /\ UNCHANGED <<num_iterations, c, i, ecdh_key, keygen_cycles, keygen_mean,
                   keygen_stddev, stats, printed, summaries, chart, charts>>
    /\ UNCHANGED others

\* line 182: keygen_cycles[i] = generate_ecdh_key(curve, &ecdh_key);
GenerateKey ==
    /\ pc = "keygen"
    /\ \E cycles \in Samples : keygen_cycles' = [keygen_cycles EXCEPT ![i + 1] = cycles]
    /\ ecdh_key' = [curve |-> c, run |-> i]
    /\ pc' = "free"
    /\ UNCHANGED <<num_iterations, c, i, keygen_mean, keygen_stddev, stats,
                   printed, summaries, chart, charts, stderr>>
    /\ UNCHANGED others

\* lines 24-58: a step of generate_ecdh_key fails and the process exits
GenerateKeyFails ==
    /\ pc = "keygen"
    /\ \E msg \in KeygenErrors : stderr' = Append(stderr, [msg |-> msg])
    /\ pc' = "exit_failure"
    /\ UNCHANGED <<num_iterations, c, i, ecdh_key, keygen_cycles, keygen_mean,
                   keygen_stddev, stats, printed, summaries, chart, charts>>
    /\ UNCHANGED others

\* lines 184-189: the key is freed and the loop goes on
FreeKey ==
    /\ pc = "free"
    /\ ecdh_key' = NULL
    /\ i' = i + 1
    /\ pc' = IF i + 1 < num_iterations THEN "keygen" ELSE "calculate"
    /\ UNCHANGED <<num_iterations, c, keygen_cycles, keygen_mean, keygen_stddev,
                   stats, printed, summaries, chart, charts, stderr>>
    /\ UNCHANGED others

\* lines 191-201: calculate_statistics, the percentage and the printed summary
Summarize ==
    /\ pc = "calculate"
    /\ \E g1 \in Samples, g3 \in Samples :
          /\ (num_iterations > 0 => g1 = 0 /\ g3 = 0)
          /\ stats' = calculate_statistics(keygen_cycles, num_iterations, g1, g3)
    /\ keygen_mean' = stats'.mean
    /\ keygen_stddev' = stats'.std_dev
    /\ printed' = [curve      |-> c,
                   mean       |-> keygen_mean',
                   std_dev    |-> keygen_stddev',
                   percentage |-> StdDevPercentage(keygen_stddev', keygen_mean')]
    /\ keygen_cycles' = stats'.cycles
    /\ summaries' = Append(summaries, c)
    /\ pc' = "plot"
    /\ UNCHANGED <<num_iterations, c, i, ecdh_key, chart, charts, stderr>>
    /\ UNCHANGED others

\* line 204: plot_cycles(keygen_cycles, curve, "keygen");
Plot ==
    /\ pc = "plot"
    /\ chart' = plot_cycles(keygen_cycles, num_iterations)
    /\ keygen_cycles' = chart'.cycles
    /\ charts' = Append(charts, c)
    /\ pc' = "next"
    /\ UNCHANGED <<num_iterations, c, i, ecdh_key, keygen_mean,
                   keygen_stddev, stats, printed, summaries, stderr>>
    /\ UNCHANGED others

\* line 176: c++, and the next curve begins
NextCurve ==
    /\ pc = "next"
    /\ c + 1 < NUM_CURVES
    /\ c' = c + 1
    /\ i' = 0
    /\ pc' = LoopEntry(num_iterations)
    /\ UNCHANGED <<num_iterations, ecdh_key, keygen_cycles, keygen_mean,
                   keygen_stddev, stats, printed, summaries, chart, charts, stderr>>
    /\ UNCHANGED others

\* lines 207-210: the provider is unloaded and main returns 0
Finish ==
    /\ pc = "next"
    /\ c + 1 >= NUM_CURVES
    /\ c' = c + 1
    /\ pc' = "done"
    /\ UNCHANGED <<num_iterations, i, ecdh_key, keygen_cycles, keygen_mean,
                   keygen_stddev, stats, printed, summaries, chart, charts, stderr>>
    /\ UNCHANGED others

Next ==
    \/ LoadProvider
    \/ LoadProviderFails
    \/ GenerateKey
    \/ GenerateKeyFails
    \/ FreeKey
    \/ Summarize
    \/ Plot
    \/ NextCurve
    \/ Finish

Spec ==
    Init /\ [][Next]_vars

\* ------------------------------------- the statistics engine, bounded
\* Every sample array of up to MaxLen sample values.
SampleArrays ==
    UNION {[1..n -> Samples] : n \in 0..MaxLen}

\* main at line 191 for the last curve, the array holding any samples
AtCalculate(cycles) ==
    /\ keygen_cycles = cycles
    /\ num_iterations = Len(cycles)
    /\ pc = "calculate"
    /\ c = NUM_CURVES - 1
    /\ i = Len(cycles)
    /\ ecdh_key = NULL
    /\ keygen_mean = Uninitialised
    /\ keygen_stddev = Uninitialised
    /\ stats = NoStats
    /\ printed = <<>>
    /\ summaries = <<>>
    /\ chart = NoChart
    /\ charts = <<>>
    /\ stderr = <<>>
    /\ OthersIdle

InitStats ==
    \E cycles \in SampleArrays : AtCalculate(cycles)

NextStats ==
    \/ Summarize
    \/ Plot

SpecStats ==
    InitStats /\ [][NextStats]_vars

\* ------------------------------------------- the scenarios, N = 50
\* the integers 1..NUM_ITERATIONS in increasing order, the value at
\* position p (1-based; none for p = 0) replaced by `value'
Replaced(p, value) ==
    [k \in 1..NUM_ITERATIONS |-> IF k = p THEN value ELSE k]

Reversed(seq) ==
    [k \in 1..Len(seq) |-> seq[Len(seq) + 1 - k]]

\* Scenario A: 1..50 in increasing order
ScenarioA ==
    Replaced(0, 0)

\* Scenario B: Scenario A with the value 26 replaced by 100000
ScenarioB ==
    Replaced(26, 100000)

\* Scenario A, and it with one value replaced by 100000, each also in
\* decreasing order
ScenarioArrays ==
    {Replaced(p, 100000) : p \in 0..NUM_ITERATIONS}
    \cup {Reversed(Replaced(p, 100000)) : p \in 0..NUM_ITERATIONS}

InitScenario ==
    \E cycles \in ScenarioArrays : AtCalculate(cycles)

SpecScenario ==
    InitScenario /\ [][NextStats]_vars

\* ======================================================================
\* src/CPU-cycle-operations/key-exc/pq/cycles-keygenEncDec_pq.c: the sweep
\* over the Kyber variants, each iteration generating a key pair,
\* encapsulating with it and decapsulating the result.

\* const char *variants[] = {"kyber512", "kyber768", "kyber1024"}
variants ==
    <<"kyber512", "kyber768", "kyber1024">>

\* the cycle counts a timed call may take in the bounded sweeps: the first
\* run of a variant may be slow, the later runs are warm
Timings(run) ==
    IF run = 0 THEN {MaxVal - 1, MaxVal} ELSE {MaxVal - 1}

\* an entry of the history of calls and outputs; text is what the call made
\* or returned
Event(call, variant, operation, run, key, text) ==
    [call |-> call, variant |-> variant, operation |-> operation, run |-> run,
     key |-> key, text |-> text]

\* what OPENSSL_malloc, EVP_PKEY_generate and the like hand out; an object
\* that belongs to no variant and no run has -1 for both
Object(kind, variant, run) ==
    [kind |-> kind, variant |-> variant, run |-> run]

\* an allocation that hands out nothing
AllocateNothing(objects, object) ==
    objects

\* an allocation: the object is live from now on
Allocate(objects, object) ==
    objects \cup {object}

\* Free that frees nothing
FreeNothing(objects, object) ==
    objects

\* EVP_PKEY_free, EVP_PKEY_CTX_free, OPENSSL_free, free: the object is no longer live
Free(objects, object) ==
    objects \ {object}

\* fprintf(stderr, format, ...) with the arguments it is given
Message(format, args) ==
    [format |-> format, args |-> args]

\* the checks of generate_kyber_key that end in exit(EXIT_FAILURE)
KyberKeygenErrors(variant) ==
    {Message("Failed to create EVP_PKEY_CTX for Kyber variant: %s", <<variant>>),
     Message("Failed to initialize keygen for Kyber variant: %s", <<variant>>),
     Message("Failed to generate Kyber key pair for variant: %s", <<variant>>)}

\* the checks of encapsulate_key that end in exit(EXIT_FAILURE)
EncapsulateErrors ==
    {Message("Failed to create EVP_PKEY_CTX for encapsulation", <<>>),
     Message("Failed to initialize encapsulation", <<>>),
     Message("Failed to determine output lengths", <<>>),
     Message("Failed to allocate memory for encapsulation", <<>>),
     Message("Failed to encapsulate key", <<>>)}

\* the check of main's OPENSSL_malloc and the checks of decapsulate_key
DecapsulateErrors ==
    {Message("Failed to allocate memory for decapsulation", <<>>),
     Message("Failed to create EVP_PKEY_CTX for decapsulation", <<>>),
     Message("Failed to initialize decapsulation", <<>>),
     Message("Failed to decapsulate key", <<>>)}

\* the checks of the provider set-up in main
KemProviderErrors ==
    {Message("Failed to create OpenSSL library context", <<>>),
     Message("Failed to load OQS provider", <<>>)}

\* an array of n slots nothing has been written to
Unwritten(n) ==
    [k \in 1..n |-> Uninitialised]

\* the variant and run whose measurement a slot holds
WrittenIn(variant, run) ==
    [variant |-> variant, run |-> run]

\* the history of an array of n slots nothing has been written to
NeverWritten(n) ==
    [k \in 1..n |-> WrittenIn(-1, -1)]

\* the for loop over the runs that ends one run early
LoopStopsEarly(index, count) ==
    index + 1 < count

\* for (int i = 0; i < NUM_ITERATIONS; i++): the test i < NUM_ITERATIONS
LoopContinues(index, count) ==
    index < count

\* where the for loop over i starts: its body, or past it when it is empty
KemLoopEntry(n) ==
    IF LoopContinues(0, n) THEN "kem_keygen" ELSE "kem_calculate"

\* main's results of the encapsulation and decapsulation statistics
encaps_decaps_results ==
    <<encaps_mean, encaps_stddev, decaps_mean, decaps_stddev>>

\* the variables of cycles-keygen_nonpq.c and cycles-signverify-pq.c
NotOfKem ==
    <<c, ecdh_key, j, keys, signature, sign_cycles, verify_cycles,
      keygen_times, start_time, end_time, elapsed_time_ns>>

\* for (int v = 0; v < 3; v++)
NUM_VARIANTS == 3

\* Largest iteration count of the bounded sweeps of the Kyber and signature programs.
MaxSweepRuns == 2

\* main before its first statement, built with n iterations
KemStart(n) ==
    /\ num_iterations = n
    /\ pc = "kem_load"
    /\ v = 0
    /\ i = 0
    /\ kyber_key = NULL
    /\ ciphertext = NULL
    /\ secret_enc = NULL
    /\ secret_dec = NULL
    /\ keygen_cycles = Unwritten(n)
    /\ encaps_cycles = Unwritten(n)
    /\ decaps_cycles = Unwritten(n)
    /\ keygen_mean = Uninitialised
    /\ keygen_stddev = Uninitialised
    /\ encaps_mean = Uninitialised
    /\ encaps_stddev = Uninitialised
    /\ decaps_mean = Uninitialised
    /\ decaps_stddev = Uninitialised
    /\ stats = NoStats
    /\ printed = <<>>
    /\ summaries = <<>>
    /\ chart = NoChart
    /\ charts = <<>>
    /\ stderr = <<>>
    /\ live = {}
    /\ origin = [keygen |-> NeverWritten(n), encapsulation |-> NeverWritten(n),
                 decapsulation |-> NeverWritten(n)]
    /\ log = <<>>
    /\ c = 0
    /\ ecdh_key = NULL
    /\ j = 0
    /\ keys = <<>>
    /\ signature = NULL
    /\ sign_cycles = <<>>
    /\ verify_cycles = <<>>
    /\ ClockIdle
    /\ timeline = <<>>

\* the program is built with one iteration or more
InitKem ==
    \E n \in 1..MaxSweepRuns : KemStart(n)

\* printf("Running tests for variant: %s\n", variant);
Banner(variant) ==
    Event("printf", variant, "banner", NULL, NULL, NULL)

\* an entry of the history of an iteration: a clock reading that starts or
\* ends a timed region, the call of the function that is measured, a call
\* made inside it, or a call that acquires or releases a resource
Step(kind, name) ==
    [kind |-> kind, name |-> name]

\* lines 223-225 and generate_kyber_key, lines 21-37
KeygenRegion ==
    <<Step("start", "clock_gettime"),
      Step("invoke", "generate_kyber_key"),
      Step("acquire", "EVP_PKEY_CTX_new_from_name"),
      Step("call", "EVP_PKEY_keygen_init"),
      Step("acquire", "EVP_PKEY_generate"),
      Step("release", "EVP_PKEY_CTX_free"),
      Step("end", "clock_gettime")>>

\* lines 230-232 and encapsulate_key, lines 46-79
EncapsulationRegion ==
    <<Step("start", "clock_gettime"),
      Step("invoke", "encapsulate_key"),
      Step("acquire", "EVP_PKEY_CTX_new"),
      Step("call", "EVP_PKEY_encapsulate_init"),
      Step("call", "EVP_PKEY_encapsulate"),
      Step("acquire", "OPENSSL_malloc"),
      Step("acquire", "OPENSSL_malloc"),
      Step("call", "EVP_PKEY_encapsulate"),
      Step("release", "EVP_PKEY_CTX_free"),
      Step("end", "clock_gettime")>>

\* lines 237-244 and decapsulate_key, lines 87-105
DecapsulationRegion ==
    <<Step("acquire", "OPENSSL_malloc"),
      Step("start", "clock_gettime"),
      Step("invoke", "decapsulate_key"),
      Step("acquire", "EVP_PKEY_CTX_new"),
      Step("call", "EVP_PKEY_decapsulate_init"),
      Step("call", "EVP_PKEY_decapsulate"),
      Step("release", "EVP_PKEY_CTX_free"),
      Step("end", "clock_gettime")>>

\* lines 249-252
CleanUpSteps ==
    <<Step("release", "EVP_PKEY_free"),
      Step("release", "OPENSSL_free"),
      Step("release", "OPENSSL_free"),
      Step("release", "OPENSSL_free")>>

\* lines 206-219: the provider is loaded and the first variant begins
KemLoadProvider ==
    /\ pc = "kem_load"
    /\ live' = Allocate(Allocate(live, Object("libctx", -1, -1)),
                        Object("oqsprov", -1, -1))
    /\ log' = Append(log, Banner(v))
    /\ pc' = KemLoopEntry(num_iterations)
    /\ UNCHANGED <<num_iterations, v, i, kyber_key, ciphertext, secret_enc, secret_dec,
                   keygen_cycles, encaps_cycles, decaps_cycles, keygen_mean,
                   keygen_stddev, stats, printed, summaries, chart, charts, stderr,
                   origin, NotOfKem, timeline>>
    /\ UNCHANGED encaps_decaps_results

\* lines 207-215: the library context or the provider cannot be had
KemLoadProviderFails ==
    /\ pc = "kem_load"
    /\ \E msg \in KemProviderErrors : stderr' = Append(stderr, msg)
    /\ pc' = "exit_failure"
    /\ UNCHANGED <<num_iterations, v, i, kyber_key, ciphertext, secret_enc, secret_dec,
                   keygen_cycles, encaps_cycles, decaps_cycles, keygen_mean,
                   keygen_stddev, stats, printed, summaries, chart, charts,
                   live, origin, log, NotOfKem, timeline>>
    /\ UNCHANGED encaps_decaps_results

\* the key pair generate_kyber_key makes in run `run` of variant `variant`
\* when one key pair is made for the whole variant
KeyOfVariant(variant, run) ==
    Object("pkey", variant, 0)

\* the key pair generate_kyber_key makes in run `run` of variant `variant`
KeyOfIteration(variant, run) ==
    Object("pkey", variant, run)

\* lines 223-227 and generate_kyber_key: the key pair is generated and timed
KemGenerateKey ==
    /\ pc = "kem_keygen"
    /\ \E cycles \in Timings(i) :
          keygen_cycles' = [keygen_cycles EXCEPT ![i + 1] = cycles]
    /\ kyber_key' = KeyOfIteration(v, i)
    /\ live' = Free(Allocate(Allocate(live, Object("keygen ctx", v, i)), kyber_key'),
                    Object("keygen ctx", v, i))
    /\ origin' = [origin EXCEPT !.keygen[i + 1] = WrittenIn(v, i)]
    /\ log' = Append(log, Event("generate_kyber_key", v, "keygen", i, kyber_key', NULL))
    /\ timeline' = KeygenRegion
    /\ pc' = "kem_encaps"
    /\ UNCHANGED <<num_iterations, v, i, ciphertext, secret_enc, secret_dec,
                   encaps_cycles, decaps_cycles, keygen_mean, keygen_stddev, stats,
                   printed, summaries, chart, charts, stderr, NotOfKem>>
    /\ UNCHANGED encaps_decaps_results

\* lines 22-35: a check of generate_kyber_key fails and the process exits
KemGenerateKeyFails ==
    /\ pc = "kem_keygen"
    /\ \E msg \in KyberKeygenErrors(variants[v + 1]) : stderr' = Append(stderr, msg)
    /\ pc' = "exit_failure"
    /\ UNCHANGED <<num_iterations, v, i, kyber_key, ciphertext, secret_enc, secret_dec,
                   keygen_cycles, encaps_cycles, decaps_cycles, keygen_mean,
                   keygen_stddev, stats, printed, summaries, chart, charts,
                   live, origin, log, NotOfKem, timeline>>
    /\ UNCHANGED encaps_decaps_results

\* lines 230-234 and encapsulate_key: the ciphertext and the secret are
\* allocated and filled from kyber_key, and the call is timed
Encapsulate ==
    /\ pc = "kem_encaps"
    /\ \E cycles \in Timings(i) :
          encaps_cycles' = [encaps_cycles EXCEPT ![i + 1] = cycles]
    /\ ciphertext' = Object("ciphertext", v, i)
    /\ secret_enc' = Object("secret_enc", v, i)
    /\ live' = Free(Allocate(Allocate(Allocate(live, Object("encapsulation ctx", v, i)),
                                      ciphertext'), secret_enc'),
                    Object("encapsulation ctx", v, i))
    /\ origin' = [origin EXCEPT !.encapsulation[i + 1] = WrittenIn(v, i)]
    /\ log' = Append(log, Event("encapsulate_key", v, "encapsulation", i,
                                kyber_key, ciphertext'))
    /\ timeline' = timeline \o EncapsulationRegion
    /\ pc' = "kem_decaps"
    /\ UNCHANGED <<num_iterations, v, i, kyber_key, secret_dec, keygen_cycles,
                   decaps_cycles, keygen_mean, keygen_stddev, stats, printed,
                   summaries, chart, charts, stderr, NotOfKem>>
    /\ UNCHANGED encaps_decaps_results

\* lines 47-77: a check of encapsulate_key fails and the process exits
EncapsulateFails ==
    /\ pc = "kem_encaps"
    /\ \E msg \in EncapsulateErrors : stderr' = Append(stderr, msg)
    /\ pc' = "exit_failure"
    /\ UNCHANGED <<num_iterations, v, i, kyber_key, ciphertext, secret_enc, secret_dec,
                   keygen_cycles, encaps_cycles, decaps_cycles, keygen_mean,
                   keygen_stddev, stats, printed, summaries, chart, charts,
                   live, origin, log, NotOfKem, timeline>>
    /\ UNCHANGED encaps_decaps_results

\* lines 237-246 and decapsulate_key: secret_dec is allocated, the
\* ciphertext is decapsulated with kyber_key, and the call is timed
Decapsulate ==
    /\ pc = "kem_decaps"
    /\ \E cycles \in Timings(i) :
          decaps_cycles' = [decaps_cycles EXCEPT ![i + 1] = cycles]
    /\ secret_dec' = Object("secret_dec", v, i)
    /\ live' = Free(Allocate(Allocate(live, secret_dec'),
                             Object("decapsulation ctx", v, i)),
                    Object("decapsulation ctx", v, i))
    /\ origin' = [origin EXCEPT !.decapsulation[i + 1] = WrittenIn(v, i)]
    /\ log' = Append(log, Event("decapsulate_key", v, "decapsulation", i,
                                kyber_key, ciphertext))
    /\ timeline' = timeline \o DecapsulationRegion
    /\ pc' = "kem_cleanup"
    /\ UNCHANGED <<num_iterations, v, i, kyber_key, ciphertext, secret_enc,
                   keygen_cycles, encaps_cycles, keygen_mean, keygen_stddev, stats,
                   printed, summaries, chart, charts, stderr, NotOfKem>>
    /\ UNCHANGED encaps_decaps_results

\* lines 238-241 and 88-103: the allocation of secret_dec or a check of
\* decapsulate_key fails and the process exits
DecapsulateFails ==
    /\ pc = "kem_decaps"
    /\ \E msg \in DecapsulateErrors : stderr' = Append(stderr, msg)
    /\ pc' = "exit_failure"
    /\ UNCHANGED <<num_iterations, v, i, kyber_key, ciphertext, secret_enc, secret_dec,
                   keygen_cycles, encaps_cycles, decaps_cycles, keygen_mean,
                   keygen_stddev, stats, printed, summaries, chart, charts,
                   live, origin, log, NotOfKem, timeline>>
    /\ UNCHANGED encaps_decaps_results

\* lines 249-253: the key pair and the three buffers are freed (the four
\* pointers keep their values) and the loop goes on
CleanUp ==
    /\ pc = "kem_cleanup"
    /\ live' = Free(Free(Free(Free(live, kyber_key), ciphertext), secret_enc), secret_dec)
    /\ i' = i + 1
    /\ timeline' = timeline \o CleanUpSteps
    /\ pc' = IF LoopContinues(i + 1, num_iterations) THEN "kem_keygen"
                                                     ELSE "kem_calculate"
    /\ UNCHANGED <<num_iterations, v, kyber_key, ciphertext, secret_enc, secret_dec,
                   keygen_cycles, encaps_cycles, decaps_cycles, keygen_mean,
                   keygen_stddev, stats, printed, summaries, chart, charts, stderr,
                   origin, log, NotOfKem>>
    /\ UNCHANGED encaps_decaps_results

\* the three numbers printed for one operation
Summary(stat) ==
    [mean       |-> stat.mean,
     std_dev    |-> stat.std_dev,
     percentage |-> StdDevPercentage(stat.std_dev, stat.mean)]

\* the operations of a variant, in the order main handles them
KemOperations ==
    <<"keygen", "encapsulation", "decapsulation">>

\* one history entry per operation of the variant, in order
PerOperation(call, variant, operations) ==
    [k \in DOMAIN operations |-> Event(call, variant, operations[k], NULL, NULL, NULL)]

\* one output for the variant as a whole: that of its first operation
OutputOfVariant(variant, operations) ==
    <<[variant |-> variant, operation |-> operations[1]]>>

\* one output per operation of the variant, in order
Outputs(variant, operations) ==
    [k \in DOMAIN operations |-> [variant |-> variant, operation |-> operations[k]]]

\* line 256: calculate_statistics(keygen_cycles, NUM_ITERATIONS, &keygen_mean,
\* &keygen_stddev);  (with one iteration or more no read of sorted_cycles[]
\* falls outside the array)
KemCalculateKeygen ==
    /\ pc = "kem_calculate"
    /\ stats' = calculate_statistics(keygen_cycles, num_iterations, 0, 0)
    /\ keygen_mean' = stats'.mean
    /\ keygen_stddev' = stats'.std_dev
    /\ log' = Append(log, Event("calculate_statistics", v, "keygen", NULL, NULL, NULL))
    /\ pc' = "kem_calculate_encaps"
    /\ UNCHANGED <<num_iterations, v, i, kyber_key, ciphertext, secret_enc, secret_dec,
                   keygen_cycles, encaps_cycles, decaps_cycles, printed, summaries,
                   chart, charts, stderr, live, origin, NotOfKem, timeline>>
    /\ UNCHANGED encaps_decaps_results

\* line 257: calculate_statistics(encaps_cycles, NUM_ITERATIONS, &encaps_mean,
\* &encaps_stddev);
KemCalculateEncaps ==
    /\ pc = "kem_calculate_encaps"
    /\ stats' = calculate_statistics(encaps_cycles, num_iterations, 0, 0)
    /\ encaps_mean' = stats'.mean
    /\ encaps_stddev' = stats'.std_dev
    /\ log' = Append(log, Event("calculate_statistics", v, "encapsulation",
                                NULL, NULL, NULL))
    /\ pc' = "kem_calculate_decaps"
    /\ UNCHANGED <<num_iterations, v, i, kyber_key, ciphertext, secret_enc, secret_dec,
                   keygen_cycles, encaps_cycles, decaps_cycles, keygen_mean,
                   keygen_stddev, decaps_mean, decaps_stddev, printed, summaries,
                   chart, charts, stderr, live, origin, NotOfKem, timeline>>

\* the three numbers printed for one operation
Printed(mean, std_dev) ==
    [mean |-> mean, std_dev |-> std_dev, percentage |-> StdDevPercentage(std_dev, mean)]

\* lines 258-277: calculate_statistics(decaps_cycles, NUM_ITERATIONS,
\* &decaps_mean, &decaps_stddev); the percentages and the printed summaries
KemSummarize ==
    /\ pc = "kem_calculate_decaps"
    /\ stats' = calculate_statistics(decaps_cycles, num_iterations, 0, 0)
    /\ decaps_mean' = stats'.mean
    /\ decaps_stddev' = stats'.std_dev
    /\ printed' = [variant       |-> v,
                   keygen        |-> Printed(keygen_mean, keygen_stddev),
                   encapsulation |-> Printed(encaps_mean, encaps_stddev),
                   decapsulation |-> Printed(decaps_mean', decaps_stddev')]
    /\ summaries' = summaries \o Outputs(v, KemOperations)
    /\ log' = Append(log, Event("calculate_statistics", v, "decapsulation",
                                NULL, NULL, NULL))
                  \o PerOperation("printf", v, KemOperations)
    /\ pc' = "kem_plot"
    /\ UNCHANGED <<num_iterations, v, i, kyber_key, ciphertext, secret_enc, secret_dec,
                   keygen_cycles, encaps_cycles, decaps_cycles, keygen_mean,
                   keygen_stddev, encaps_mean, encaps_stddev, chart, charts, stderr,
                   live, origin, NotOfKem, timeline>>

\* lines 280-282: the three plot_cycles calls
KemPlot ==
    /\ pc = "kem_plot"
    /\ chart' = plot_cycles(decaps_cycles, num_iterations)
    /\ charts' = charts \o Outputs(v, KemOperations)
    /\ log' = log \o PerOperation("plot_cycles", v, KemOperations)
    /\ pc' = "kem_next"
    /\ UNCHANGED <<num_iterations, v, i, kyber_key, ciphertext, secret_enc, secret_dec,
                   keygen_cycles, encaps_cycles, decaps_cycles, keygen_mean,
                   keygen_stddev, stats, printed, summaries, stderr, live, origin,
                   NotOfKem, timeline>>
    /\ UNCHANGED encaps_decaps_results

\* lines 217-219: v++, and the next variant begins
NextVariant ==
    /\ pc = "kem_next"
    /\ v + 1 < NUM_VARIANTS
    /\ v' = v + 1
    /\ i' = 0
    /\ log' = Append(log, Banner(v + 1))
    /\ pc' = KemLoopEntry(num_iterations)
    /\ UNCHANGED <<num_iterations, kyber_key, ciphertext, secret_enc, secret_dec,
                   keygen_cycles, encaps_cycles, decaps_cycles, keygen_mean,
                   keygen_stddev, stats, printed, summaries, chart, charts, stderr,
                   live, origin, NotOfKem, timeline>>
    /\ UNCHANGED encaps_decaps_results

\* lines 285-288: the provider is unloaded, the library context freed,
\* and main returns 0
KemFinish ==
    /\ pc = "kem_next"
    /\ v + 1 >= NUM_VARIANTS
    /\ v' = v + 1
    /\ live' = Free(Free(live, Object("oqsprov", -1, -1)), Object("libctx", -1, -1))
    /\ pc' = "done"
    /\ UNCHANGED <<num_iterations, i, kyber_key, ciphertext, secret_enc, secret_dec,
                   keygen_cycles, encaps_cycles, decaps_cycles, keygen_mean,
                   keygen_stddev, stats, printed, summaries, chart, charts, stderr,
                   origin, log, NotOfKem, timeline>>
    /\ UNCHANGED encaps_decaps_results

NextKem ==
    \/ KemLoadProvider
    \/ KemLoadProviderFails
    \/ KemGenerateKey
    \/ KemGenerateKeyFails
    \/ Encapsulate
    \/ EncapsulateFails
    \/ Decapsulate
    \/ DecapsulateFails
    \/ CleanUp
    \/ KemCalculateKeygen
    \/ KemCalculateEncaps
    \/ KemSummarize
    \/ KemPlot
    \/ NextVariant
    \/ KemFinish

SpecKem ==
    InitKem /\ [][NextKem]_vars

\* ======================================================================
\* src/CPU-cycle-operations/signature/pq/cycles-signverify-pq.c: the sweep
\* over the signature algorithms, each run signing the XML data and
\* verifying the signature.

\* const char *algorithms[] = {"dilithium2", ..., "sphincsshake128fsimple"}
algorithms ==
    <<"dilithium2", "dilithium3", "dilithium5", "falcon512", "falcon1024",
      "sphincssha2128fsimple", "sphincssha2128ssimple", "sphincssha2192fsimple",
      "sphincsshake128fsimple">>

\* int num_algorithms = sizeof(algorithms) / sizeof(algorithms[0]);
num_algorithms ==
    Len(algorithms)

\* the checks of main's set-up that end in exit(EXIT_FAILURE)
SigSetUpErrors ==
    {Message("Usage: %s <xml_file>", <<"argv[0]">>),
     Message("Failed to load OQS provider", <<>>),
     Message("Failed to open XML file %s", <<"xml_file">>)}

\* the checks of generate_key that end in exit(EXIT_FAILURE)
SigKeygenErrors(alg) ==
    {Message("Failed to create EVP_PKEY_CTX for %s", <<alg>>),
     Message("Failed to initialize keygen for %s", <<alg>>),
     Message("Failed to generate key pair for %s", <<alg>>)}

\* the external calls of sign_xml whose failure sign_xml does not look at
SignUnchecked ==
    {"EVP_SignUpdate", "malloc"}

\* the external calls of sign_xml whose failure makes EVP_SignFinal return 0:
\* its own, and that of EVP_SignInit, which leaves the digest context unusable
SignChecked ==
    {"EVP_SignInit", "EVP_SignFinal"}

\* the external calls of verify_signature that may fail
VerifyCalls ==
    {"EVP_VerifyInit", "EVP_VerifyUpdate", "EVP_VerifyFinal"}

\* no external call fails
NoFailure ==
    "none"

\* what the digest context has absorbed when the final call is made
Digested(update, failed) ==
    IF failed = update THEN "nothing" ELSE "xml_data"

\* the null pointer, where an object is expected
NullObject ==
    Object("NULL", -1, -1)

\* the buffer sign_xml returns in *sig
SignatureBuffer(alg, run, failed) ==
    IF failed = "malloc" THEN NullObject ELSE Object("signature", alg, run)

\* int verify_result = EVP_VerifyFinal(md_ctx, signature, signature_len, pkey);
\* 1 when the signature was made with this key over what the context absorbed
VerifyFinal(sig, pkey, failed) ==
    IF /\ failed \notin {"EVP_VerifyInit", "EVP_VerifyFinal"}
       /\ sig.buffer # NullObject
       /\ sig.key = pkey
       /\ sig.over = Digested("EVP_VerifyUpdate", failed)
    THEN 1 ELSE 0

\* Rejected that takes only a negative result for a failure
RejectedWhenNegative(verify_result) ==
    verify_result < 0

\* if (verify_result != 1)
Rejected(verify_result) ==
    verify_result # 1

\* the operations of an algorithm, in the order main handles them
SigOperations ==
    <<"signing", "verifying">>

\* the variables of cycles-keygen_nonpq.c and cycles-keygenEncDec_pq.c
NotOfSig ==
    <<c, ecdh_key, v, kyber_key, ciphertext, secret_enc, secret_dec, keygen_cycles,
      encaps_cycles, decaps_cycles, keygen_mean, keygen_stddev, encaps_mean,
      encaps_stddev, decaps_mean, decaps_stddev,
      keygen_times, start_time, end_time, elapsed_time_ns, timeline>>

\* main before its first statement, built with n runs
SigStart(n) ==
    /\ num_iterations = n
    /\ pc = "sig_setup"
    /\ i = 0
    /\ j = 0
    /\ keys = <<>>
    /\ signature = [buffer |-> NullObject, key |-> NullObject, over |-> "xml_data"]
    /\ sign_cycles = Unwritten(n)
    /\ verify_cycles = Unwritten(n)
    /\ stats = NoStats
    /\ printed = <<>>
    /\ summaries = <<>>
    /\ chart = NoChart
    /\ charts = <<>>
    /\ stderr = <<>>
    /\ live = {}
    /\ origin = [signing |-> NeverWritten(n), verifying |-> NeverWritten(n)]
    /\ log = <<>>
    /\ c = 0
    /\ ecdh_key = NULL
    /\ v = 0
    /\ kyber_key = NULL
    /\ ciphertext = NULL
    /\ secret_enc = NULL
    /\ secret_dec = NULL
    /\ keygen_cycles = <<>>
    /\ encaps_cycles = <<>>
    /\ decaps_cycles = <<>>
    /\ keygen_mean = Uninitialised
    /\ keygen_stddev = Uninitialised
    /\ encaps_mean = Uninitialised
    /\ encaps_stddev = Uninitialised
    /\ decaps_mean = Uninitialised
    /\ decaps_stddev = Uninitialised
    /\ ClockIdle
    /\ timeline = <<>>

\* the program is built with one run or more
InitSig ==
    \E n \in 1..MaxSweepRuns : SigStart(n)

\* lines 180-206: the arguments are checked, the provider loaded and the
\* XML file read
SigSetUp ==
    /\ pc = "sig_setup"
    /\ live' = Allocate(Allocate(live, Object("oqsprov", -1, -1)),
                        Object("xml_data", -1, -1))
    /\ pc' = "sig_genkeys"
    /\ UNCHANGED <<num_iterations, i, j, keys, signature, sign_cycles, verify_cycles,
                   stats, printed, summaries, chart, charts, stderr, origin, log,
                   NotOfSig>>

\* lines 180-200: a check of the set-up fails and the process exits
SigSetUpFails ==
    /\ pc = "sig_setup"
    /\ \E msg \in SigSetUpErrors : stderr' = Append(stderr, msg)
    /\ pc' = "exit_failure"
    /\ UNCHANGED <<num_iterations, i, j, keys, signature, sign_cycles, verify_cycles,
                   stats, printed, summaries, chart, charts, live, origin, log,
                   NotOfSig>>

\* lines 224-226 and generate_key: keys[i] = generate_key(algorithms[i]);
\* after the last key the sweep begins with the first algorithm
SigGenerateKey ==
    /\ pc = "sig_genkeys"
    /\ keys' = Append(keys, Object("pkey", i, -1))
    /\ live' = Free(Allocate(Allocate(live, Object("keygen ctx", i, -1)),
                             Object("pkey", i, -1)),
                    Object("keygen ctx", i, -1))
    /\ log' = Append(log, Event("generate_key", i, "keygen", NULL,
                                Object("pkey", i, -1), NULL))
    /\ i' = IF i + 1 < num_algorithms THEN i + 1 ELSE 0
    /\ pc' = IF i + 1 < num_algorithms THEN "sig_genkeys" ELSE "sig_sign"
    /\ UNCHANGED <<num_iterations, j, signature, sign_cycles, verify_cycles, stats,
                   printed, summaries, chart, charts, stderr, origin, NotOfSig>>

\* lines 23-36: a check of generate_key fails and the process exits
SigGenerateKeyFails ==
    /\ pc = "sig_genkeys"
    /\ \E msg \in SigKeygenErrors(algorithms[i + 1]) : stderr' = Append(stderr, msg)
    /\ pc' = "exit_failure"
    /\ UNCHANGED <<num_iterations, i, j, keys, signature, sign_cycles, verify_cycles,
                   stats, printed, summaries, chart, charts, live, origin, log,
                   NotOfSig>>

\* line 236 and sign_xml: the data is digested and signed with keys[i] into
\* a fresh buffer, and the call is timed; the results of EVP_SignUpdate and
\* of malloc are not looked at
Sign ==
    /\ pc = "sig_sign"
    /\ \E cycles \in Timings(j), failed \in {NoFailure} \cup SignUnchecked :
          /\ sign_cycles' = [sign_cycles EXCEPT ![j + 1] = cycles]
          /\ signature' = [buffer |-> SignatureBuffer(i, j, failed),
                           key    |-> keys[i + 1],
                           over   |-> Digested("EVP_SignUpdate", failed)]
          /\ log' = Append(log, Event("sign_xml", i, "signing", j, keys[i + 1],
                                      signature'.buffer))
    /\ live' = Free(Allocate(Allocate(live, Object("md_ctx", i, j)), signature'.buffer),
                    Object("md_ctx", i, j)) \ {NullObject}
    /\ origin' = [origin EXCEPT !.signing[j + 1] = WrittenIn(i, j)]
    /\ pc' = "sig_verify"
    /\ UNCHANGED <<num_iterations, i, j, keys, verify_cycles, stats, printed,
                   summaries, chart, charts, stderr, NotOfSig>>

\* lines 52-55: EVP_SignFinal returns 0 and the process exits
SignFails ==
    /\ pc = "sig_sign"
    /\ \E failed \in SignChecked :
          stderr' = Append(stderr, Message("Failed to sign the XML data", <<>>))
    /\ pc' = "exit_failure"
    /\ UNCHANGED <<num_iterations, i, j, keys, signature, sign_cycles, verify_cycles,
                   stats, printed, summaries, chart, charts, live, origin, log,
                   NotOfSig>>

\* line 237 and verify_signature: the data is digested, the signature is
\* verified with keys[i] and found good, and the call is timed; the results
\* of EVP_VerifyInit and EVP_VerifyUpdate are not looked at
Verify ==
    /\ pc = "sig_verify"
    /\ \E cycles \in Timings(j), failed \in {NoFailure} \cup VerifyCalls :
          LET verify_result == VerifyFinal(signature, keys[i + 1], failed)
          IN  /\ ~Rejected(verify_result)
              /\ verify_cycles' = [verify_cycles EXCEPT ![j + 1] = cycles]
              /\ log' = Append(log, Event("verify_signature", i, "verifying", j,
                                          keys[i + 1], verify_result))
    /\ live' = Free(Allocate(live, Object("md_ctx", i, j)), Object("md_ctx", i, j))
    /\ origin' = [origin EXCEPT !.verifying[j + 1] = WrittenIn(i, j)]
    /\ pc' = "sig_free"
    /\ UNCHANGED <<num_iterations, i, j, keys, signature, sign_cycles, stats, printed,
                   summaries, chart, charts, stderr, NotOfSig>>

\* lines 85-88: verify_result is not 1 and the process exits
VerifyFails ==
    /\ pc = "sig_verify"
    /\ \E failed \in {NoFailure} \cup VerifyCalls :
          LET verify_result == VerifyFinal(signature, keys[i + 1], failed)
          IN  /\ Rejected(verify_result)
              /\ log' = Append(log, Event("verify_signature", i, "verifying", j,
                                          keys[i + 1], verify_result))
    /\ stderr' = Append(stderr, Message("Failed to verify the signature for algorithm %s",
                                        <<algorithms[i + 1]>>))
    /\ pc' = "exit_failure"
    /\ UNCHANGED <<num_iterations, i, j, keys, signature, sign_cycles, verify_cycles,
                   stats, printed, summaries, chart, charts, live, origin, NotOfSig>>

\* lines 238-239: free(signature); (the pointer keeps its value) and j++
FreeSignature ==
    /\ pc = "sig_free"
    /\ live' = Free(live, signature.buffer)
    /\ j' = j + 1
    /\ pc' = IF LoopContinues(j + 1, num_iterations) THEN "sig_sign"
                                                     ELSE "sig_calculate"
    /\ UNCHANGED <<num_iterations, i, keys, signature, sign_cycles, verify_cycles,
                   stats, printed, summaries, chart, charts, stderr, origin, log,
                   NotOfSig>>

\* lines 241-253: the two calculate_statistics calls, the percentages and
\* the printed summaries
SigSummarize ==
    /\ pc = "sig_calculate"
    /\ LET signing   == calculate_statistics(sign_cycles, num_iterations, 0, 0)
           verifying == calculate_statistics(verify_cycles, num_iterations, 0, 0)
       IN  /\ stats' = verifying
           /\ printed' = [variant   |-> i,
                          signing   |-> Summary(signing),
                          verifying |-> Summary(verifying)]
    /\ summaries' = summaries \o Outputs(i, SigOperations)
    /\ log' = log \o PerOperation("calculate_statistics", i, SigOperations)
                  \o PerOperation("printf", i, SigOperations)
    /\ pc' = "sig_plot"
    /\ UNCHANGED <<num_iterations, i, j, keys, signature, sign_cycles, verify_cycles,
                   chart, charts, stderr, live, origin, NotOfSig>>

\* lines 256-257: the two plot_cycles calls
SigPlot ==
    /\ pc = "sig_plot"
    /\ chart' = plot_cycles(verify_cycles, num_iterations)
    /\ charts' = charts \o Outputs(i, SigOperations)
    /\ log' = log \o PerOperation("plot_cycles", i, SigOperations)
    /\ pc' = "sig_next"
    /\ UNCHANGED <<num_iterations, i, j, keys, signature, sign_cycles, verify_cycles,
                   stats, printed, summaries, stderr, live, origin, NotOfSig>>

\* lines 229-233: i++, and the next algorithm begins with arrays of its own
NextAlgorithm ==
    /\ pc = "sig_next"
    /\ i + 1 < num_algorithms
    /\ i' = i + 1
    /\ j' = 0
    /\ sign_cycles' = Unwritten(num_iterations)
    /\ verify_cycles' = Unwritten(num_iterations)
    /\ origin' = [signing |-> NeverWritten(num_iterations),
                  verifying |-> NeverWritten(num_iterations)]
    /\ pc' = "sig_sign"
    /\ UNCHANGED <<num_iterations, keys, signature, stats, printed, summaries, chart,
                   charts, stderr, live, log, NotOfSig>>

\* lines 261-269: the keys and the XML data are freed, the provider is
\* unloaded, and main returns 0
SigFinish ==
    /\ pc = "sig_next"
    /\ i + 1 >= num_algorithms
    /\ i' = i + 1
    /\ live' = (live \ {keys[k] : k \in DOMAIN keys})
                  \ {Object("oqsprov", -1, -1), Object("xml_data", -1, -1)}
    /\ pc' = "done"
    /\ UNCHANGED <<num_iterations, j, keys, signature, sign_cycles, verify_cycles,
                   stats, printed, summaries, chart, charts, stderr, origin, log,
                   NotOfSig>>

NextSig ==
    \/ SigSetUp
    \/ SigSetUpFails
    \/ SigGenerateKey
    \/ SigGenerateKeyFails
    \/ Sign
    \/ SignFails
    \/ Verify
    \/ VerifyFails
    \/ FreeSignature
    \/ SigSummarize
    \/ SigPlot
    \/ NextAlgorithm
    \/ SigFinish

SpecSig ==
    InitSig /\ [][NextSig]_vars

\* ======================================================================
\* The two sweeps side by side: a behaviour is a run of one program or of
\* the other.
InitSweeps ==
    InitKem \/ InitSig

NextSweeps ==
    NextKem \/ NextSig

SpecSweeps ==
    InitSweeps /\ [][NextSweeps]_vars

\* ======================================================================
\* src/Time-operations/key-exc/non-pq/time-keygen_nonpq.c: the copy of
\* calculate_statistics and of the plot function that works on doubles
\* (times in microseconds), and the steps of its main that call them.

\* #define IQR_MULTIPLIER 1.5
IQR_MULTIPLIER ==
    Rat(IQR_MULTIPLIER_HALVES, 2)

\* a > b on doubles that are numbers
RatGreater(a, b) ==
    ~RatLeq(a, b)

\* int ignore_runs = num_runs * IGNORE_PERCENTAGE;  (line 70)
TimesIgnoreRuns(num_runs) ==
    (num_runs * IGNORE_PERCENTAGE_TENTHS) \div 10

\* int effective_runs = num_runs - 2 * ignore_runs;  (line 71)
TimesEffectiveRuns(num_runs, ignore_runs) ==
    num_runs - 2 * ignore_runs

\* lines 79-85, for j from lo to hi - 1: if (sorted_times[ix] > sorted_times[j])
\* the two are exchanged
RECURSIVE SortTimesInner(_, _, _, _)
SortTimesInner(a, ix, lo, hi) ==
    IF lo >= hi THEN a
    ELSE IF hi = lo + 1
         THEN (IF RatGreater(a[ix + 1], a[lo + 1]) THEN Swap(a, ix, lo) ELSE a)
    ELSE LET mid  == (lo + hi) \div 2
             half == SortTimesInner(a, ix, lo, mid)
         IN  IF Evaluated(half) THEN SortTimesInner(half, ix, mid, hi) ELSE half

\* lines 78-86, for i from lo to hi - 1
RECURSIVE SortTimesOuter(_, _, _)
SortTimesOuter(a, lo, hi) ==
    IF lo >= hi THEN a
    ELSE IF hi = lo + 1 THEN SortTimesInner(a, lo, lo + 1, Len(a))
    ELSE LET mid  == (lo + hi) \div 2
             half == SortTimesOuter(a, lo, mid)
         IN  IF Evaluated(half) THEN SortTimesOuter(half, mid, hi) ELSE half

\* lines 74-86: the copy of times[] into sorted_times[] and the exchange sort
SortTimes(times) ==
    SortTimesOuter(times, 0, Len(times) - 1)

\* the band test with the lower limit taken without the interquartile range
TimesInBandFromQ1(x, q1, q3, iqr) ==
    /\ RatLeq(q1, x)
    /\ RatLeq(x, RatAdd(q3, RatMul(IQR_MULTIPLIER, iqr)))

\* sorted_times[i] >= q1 - IQR_MULTIPLIER * iqr &&
\* sorted_times[i] <= q3 + IQR_MULTIPLIER * iqr
TimesInBand(x, q1, q3, iqr) ==
    /\ RatLeq(RatSub(q1, RatMul(IQR_MULTIPLIER, iqr)), x)
    /\ RatLeq(x, RatAdd(q3, RatMul(IQR_MULTIPLIER, iqr)))

\* lines 94-98, for i from lo to hi - 1: sum += sorted_times[i] for the in-band i
RECURSIVE TimesSumLoop(_, _, _, _, _, _, _)
TimesSumLoop(sum, sorted, lo, hi, q1, q3, iqr) ==
    IF lo >= hi THEN sum
    ELSE IF hi = lo + 1
         THEN (IF TimesInBand(sorted[lo + 1], q1, q3, iqr)
               THEN RatAdd(sum, sorted[lo + 1]) ELSE sum)
    ELSE LET mid  == (lo + hi) \div 2
             half == TimesSumLoop(sum, sorted, lo, mid, q1, q3, iqr)
         IN  IF Evaluated(half) THEN TimesSumLoop(half, sorted, mid, hi, q1, q3, iqr)
                                ELSE half

\* lines 101-105, for i from lo to hi - 1: valid_runs++ for the in-band i
RECURSIVE TimesCountLoop(_, _, _, _, _, _, _)
TimesCountLoop(valid_runs, sorted, lo, hi, q1, q3, iqr) ==
    IF lo >= hi THEN valid_runs
    ELSE IF hi = lo + 1
         THEN (IF TimesInBand(sorted[lo + 1], q1, q3, iqr)
               THEN valid_runs + 1 ELSE valid_runs)
    ELSE LET mid  == (lo + hi) \div 2
             half == TimesCountLoop(valid_runs, sorted, lo, mid, q1, q3, iqr)
         IN  IF Evaluated(half) THEN TimesCountLoop(half, sorted, mid, hi, q1, q3, iqr)
                                ELSE half

\* (sorted_times[i] - *mean) * (sorted_times[i] - *mean)
TimesSqDiff(x, mean) ==
    RatMul(RatSub(x, mean), RatSub(x, mean))

\* lines 109-113, for i from lo to hi - 1: sum_sq_diff += (sorted_times[i] -
\* *mean)^2 for the in-band i
RECURSIVE TimesSqDiffLoop(_, _, _, _, _, _, _, _)
TimesSqDiffLoop(sum_sq_diff, sorted, lo, hi, q1, q3, iqr, mean) ==
    IF lo >= hi THEN sum_sq_diff
    ELSE IF hi = lo + 1
         THEN (IF TimesInBand(sorted[lo + 1], q1, q3, iqr)
               THEN RatAdd(sum_sq_diff, TimesSqDiff(sorted[lo + 1], mean))
               ELSE sum_sq_diff)
    ELSE LET mid  == (lo + hi) \div 2
             half == TimesSqDiffLoop(sum_sq_diff, sorted, lo, mid, q1, q3, iqr, mean)
         IN  IF Evaluated(half)
             THEN TimesSqDiffLoop(half, sorted, mid, hi, q1, q3, iqr, mean)
             ELSE half

\* calculate_statistics(times, num_runs, &mean, &std_dev) of
\* time-keygen_nonpq.c, lines 67-116: every local, both results and the
\* caller's array as the call leaves it.  g1 and g3 are what a read past
\* the end of sorted_times finds (only num_runs = 0 reads there).
calculate_statistics_times(times, num_runs, g1, g3) ==
    LET ignore_runs    == TimesIgnoreRuns(num_runs)
        effective_runs == TimesEffectiveRuns(num_runs, ignore_runs)
        sorted_times   == SortTimes(times)
        q1_index       == ignore_runs + (effective_runs \div 4)
        q3_index       == ignore_runs + ((3 * effective_runs) \div 4)
        q1             == ReadSorted(sorted_times, q1_index, g1)
        q3             == ReadSorted(sorted_times, q3_index, g3)
        iqr            == RatSub(q3, q1)
        sum            == TimesSumLoop(RatInt(0), sorted_times, ignore_runs,
                                       num_runs - ignore_runs, q1, q3, iqr)
        valid_runs     == TimesCountLoop(0, sorted_times, ignore_runs,
                                         num_runs - ignore_runs, q1, q3, iqr)
        mean           == RatDiv(sum, RatInt(valid_runs))
        sum_sq_diff    == TimesSqDiffLoop(RatInt(0), sorted_times, ignore_runs,
                                          num_runs - ignore_runs, q1, q3, iqr, mean)
    IN  [times          |-> times,
         num_runs       |-> num_runs,
         ignore_runs    |-> ignore_runs,
         effective_runs |-> effective_runs,
         sorted_times   |-> sorted_times,
         q1_index       |-> q1_index,
         q3_index       |-> q3_index,
         q1             |-> q1,
         q3             |-> q3,
         iqr            |-> iqr,
         sum            |-> sum,
         valid_runs     |-> valid_runs,
         mean           |-> mean,
         sum_sq_diff    |-> sum_sq_diff,
         std_dev        |-> Sqrt(RatDiv(sum_sq_diff, RatInt(valid_runs)))]

\* lines 136-141, for i from lo to hi - 1:
\* if (times_microseconds[i] > max_time) max_time = times_microseconds[i];
RECURSIVE MaxTime(_, _, _, _)
MaxTime(max_time, times_microseconds, lo, hi) ==
    IF lo >= hi THEN max_time
    ELSE IF hi = lo + 1
         THEN (IF RatGreater(times_microseconds[lo + 1], max_time)
               THEN times_microseconds[lo + 1] ELSE max_time)
    ELSE LET mid  == (lo + hi) \div 2
             half == MaxTime(max_time, times_microseconds, lo, mid)
         IN  IF Evaluated(half) THEN MaxTime(half, times_microseconds, mid, hi) ELSE half

\* plot_times(times, curve, operation) with NUM_ITERATIONS = n, lines
\* 118-157: times[] is copied into times_microseconds[], which is all the
\* function reads afterwards
plot_times(times, n) ==
    LET times_microseconds == times
        ignore_runs        == TimesIgnoreRuns(n)
        max_time           == MaxTime(RatInt(0), times_microseconds, ignore_runs,
                                      n - ignore_runs)
    IN  [xmin   |-> ignore_runs + 1,
         xmax   |-> n - ignore_runs,
         ymin   |-> RatInt(0),
         ymax   |-> RatMul(Rat(11, 10), max_time),
         n      |-> n - 2 * ignore_runs,
         size   |-> n - 2 * ignore_runs,
         writes |-> PlotWrites(ignore_runs, n - ignore_runs, ignore_runs),
         points |-> PlotPoints(<<>>, times_microseconds, ignore_runs, n - ignore_runs),
         times  |-> times]

\* the doubles that hold the whole numbers of an array
AsDoubles(cycles) ==
    [k \in DOMAIN cycles |-> RatInt(cycles[k])]

\* main at line 196 for the last curve, keygen_times holding any samples
\* that are whole numbers of microseconds
AtTimesCalculate(times) ==
    /\ keygen_times = times
    /\ num_iterations = Len(times)
    /\ pc = "times_calculate"
    /\ c = NUM_CURVES - 1
    /\ i = Len(times)
    /\ ecdh_key = NULL
    /\ keygen_cycles = <<>>
    /\ keygen_mean = Uninitialised
    /\ keygen_stddev = Uninitialised
    /\ stats = NoStats
    /\ printed = <<>>
    /\ summaries = <<>>
    /\ chart = NoChart
    /\ charts = <<>>
    /\ stderr = <<>>
    /\ v = 0
    /\ kyber_key = NULL
    /\ ciphertext = NULL
    /\ secret_enc = NULL
    /\ secret_dec = NULL
    /\ encaps_cycles = <<>>
    /\ decaps_cycles = <<>>
    /\ encaps_mean = Uninitialised
    /\ encaps_stddev = Uninitialised
    /\ decaps_mean = Uninitialised
    /\ decaps_stddev = Uninitialised
    /\ j = 0
    /\ keys = <<>>
    /\ signature = NULL
    /\ sign_cycles = <<>>
    /\ verify_cycles = <<>>
    /\ start_time = NoReading
    /\ end_time = NoReading
    /\ elapsed_time_ns = <<>>
    /\ timeline = <<>>
    /\ live = {}
    /\ origin = <<>>
    /\ log = <<>>

\* Longest sample array of the bounded specification of the time copy.
MaxTimesLen == 6

\* Every array of up to MaxTimesLen sample values.
TimesArrays ==
    UNION {[1..n -> Samples] : n \in 0..MaxTimesLen}

InitTimes ==
    \E cycles \in TimesArrays : AtTimesCalculate(AsDoubles(cycles))

\* the variables of the other programs
NotOfTimes ==
    <<keygen_cycles, v, kyber_key, ciphertext, secret_enc, secret_dec, encaps_cycles,
      decaps_cycles, encaps_mean, encaps_stddev, decaps_mean, decaps_stddev, j,
      keys, signature, sign_cycles, verify_cycles, start_time, end_time,
      elapsed_time_ns, timeline, live, origin, log>>

\* lines 196-205: calculate_statistics, the percentage and the printed summary
TimesSummarize ==
    /\ pc = "times_calculate"
    /\ \E g1 \in Samples, g3 \in Samples :
          /\ (num_iterations > 0 => g1 = 0 /\ g3 = 0)
          /\ stats' = calculate_statistics_times(keygen_times, num_iterations,
                                                 RatInt(g1), RatInt(g3))
    /\ keygen_mean' = stats'.mean
    /\ keygen_stddev' = stats'.std_dev
    /\ printed' = [curve      |-> c,
                   mean       |-> keygen_mean',
                   std_dev    |-> keygen_stddev',
                   percentage |-> StdDevPercentage(keygen_stddev', keygen_mean')]
    /\ keygen_times' = stats'.times
    /\ summaries' = Append(summaries, c)
    /\ pc' = "times_plot"
    /\ UNCHANGED <<num_iterations, c, i, ecdh_key, chart, charts, stderr, NotOfTimes>>

\* line 208: plot_times(keygen_times, curve, "keygen");
TimesPlot ==
    /\ pc = "times_plot"
    /\ chart' = plot_times(keygen_times, num_iterations)
    /\ keygen_times' = chart'.times
    /\ charts' = Append(charts, c)
    /\ pc' = "times_next"
    /\ UNCHANGED <<num_iterations, c, i, ecdh_key, keygen_mean, keygen_stddev, stats,
                   printed, summaries, stderr, NotOfTimes>>

NextTimes ==
    \/ TimesSummarize
    \/ TimesPlot

SpecTimes ==
    InitTimes /\ [][NextTimes]_vars

\* ============================================== the elapsed nanoseconds
\* generate_ecdh_key of cycles-keygen_nonpq.c, lines 17-19, 30 and 61-62: two
\* readings of the monotonic clock and their difference in nanoseconds, an
\* unsigned long long. A 64-bit unsigned value is its eight bytes, the least
\* significant first; a natural number of any size is its bytes likewise.

\* line 62: 1000000000ULL, the nanoseconds of a second
NSEC_PER_SEC == 1000000000

\* the values of a byte
Byte == 256

\* the bytes of an unsigned long long
WordBytes == 8

\* the largest seconds-reading of the bounded clock, next to a long uptime
MaxSec == 3

\* the bytes of a natural number
RECURSIVE Digits(_)
Digits(x) ==
    IF x = 0 THEN <<>> ELSE <<x % Byte>> \o Digits(x \div Byte)

\* byte k of a number, zero beyond its last byte
Digit(a, k) ==
    IF k <= Len(a) THEN a[k] ELSE 0

\* the sum of two natural numbers, byte by byte with the carry
RECURSIVE AddCarry(_, _, _, _, _)
AddCarry(a, b, k, carry, n) ==
    IF k > n
    THEN Digits(carry)
    ELSE LET t == Digit(a, k) + Digit(b, k) + carry
         IN  <<t % Byte>> \o AddCarry(a, b, k + 1, t \div Byte, n)

NatAdd(a, b) ==
    AddCarry(a, b, 1, 0, IF Len(a) >= Len(b) THEN Len(a) ELSE Len(b))

\* the products of the bytes that meet in byte k of a product
RECURSIVE ColumnSum(_, _, _, _)
ColumnSum(a, b, k, m) ==
    IF m > k
    THEN 0
    ELSE Digit(a, m) * Digit(b, k + 1 - m) + ColumnSum(a, b, k, m + 1)

\* the product of two natural numbers, column by column with the carry
RECURSIVE MulCarry(_, _, _, _, _)
MulCarry(a, b, k, carry, n) ==
    IF k > n
    THEN Digits(carry)
    ELSE LET t == ColumnSum(a, b, k, 1) + carry
         IN  <<t % Byte>> \o MulCarry(a, b, k + 1, t \div Byte, n)

NatMul(a, b) ==
    MulCarry(a, b, 1, 0, Len(a) + Len(b))

\* a number without the zero bytes at its top
RECURSIVE Trimmed(_)
Trimmed(a) ==
    IF a # <<>> /\ a[Len(a)] = 0 THEN Trimmed(SubSeq(a, 1, Len(a) - 1)) ELSE a

\* a number reduced mod 2^64: its low eight bytes
Wrap(a) ==
    [k \in 1..WordBytes |-> Digit(a, k)]

\* 2^64 less a value: every byte complemented, and one added
Negated(a) ==
    Wrap(NatAdd([k \in 1..WordBytes |-> (Byte - 1) - Digit(a, k)], <<1>>))

\* a long that is converted as if to unsigned int: 2^32 less its magnitude
\* when it is negative, the upper half zero
ToUnsignedInt(x) ==
    IF x >= 0
    THEN Wrap(Digits(x))
    ELSE Wrap(SubSeq(Negated(Digits(-x)), 1, WordBytes \div 2))

\* line 62: a long operand converted to unsigned long long, which is the
\* value itself when it is not negative and 2^64 more when it is
ToUnsignedLongLong(x) ==
    IF x >= 0 THEN Wrap(Digits(x)) ELSE Negated(Digits(-x))

\* line 62: (end_time.tv_sec - start_time.tv_sec) * 1000000000ULL +
\* (end_time.tv_nsec - start_time.tv_nsec), the differences taken as longs
\* and the product and the sum as unsigned long long
ElapsedNs(start, end) ==
    Wrap(NatAdd(Wrap(NatMul(ToUnsignedLongLong(end.tv_sec - start.tv_sec),
                            ToUnsignedLongLong(NSEC_PER_SEC))),
                ToUnsignedLongLong(end.tv_nsec - start.tv_nsec)))

\* a reading is not later than another
NotLater(start, end) ==
    \/ start.tv_sec < end.tv_sec
    \/ start.tv_sec = end.tv_sec /\ start.tv_nsec <= end.tv_nsec

\* the seconds of the bounded clock: just after boot, and after decades
Seconds ==
    {0, 1, MaxSec, MaxSec * (NSEC_PER_SEC \div 2)}

\* the nanoseconds of the bounded clock: the ends of 0..999999999 and the
\* middle
Nanoseconds ==
    {0, 1, NSEC_PER_SEC \div 2, NSEC_PER_SEC - 2, NSEC_PER_SEC - 1}

\* what clock_gettime(CLOCK_MONOTONIC, ...) can store
Readings ==
    [tv_sec : Seconds, tv_nsec : Nanoseconds]

\* generate_ecdh_key at line 30, before the first reading
InitClock ==
    /\ pc = "clock_start"
    /\ num_iterations = NUM_ITERATIONS
    /\ c = 0
    /\ i = 0
    /\ ecdh_key = NULL
    /\ keygen_cycles = <<>>
    /\ keygen_mean = Uninitialised
    /\ keygen_stddev = Uninitialised
    /\ stats = NoStats
    /\ printed = <<>>
    /\ summaries = <<>>
    /\ chart = NoChart
    /\ charts = <<>>
    /\ stderr = <<>>
    /\ OthersIdle

\* the variables that the readings leave alone
NotOfClock ==
    <<num_iterations, c, i, ecdh_key, keygen_cycles, keygen_mean, keygen_stddev,
      stats, printed, summaries, chart, charts, stderr, v, kyber_key,
      ciphertext, secret_enc, secret_dec, encaps_cycles, decaps_cycles,
      encaps_mean, encaps_stddev, decaps_mean, decaps_stddev, j, keys,
      signature, sign_cycles, verify_cycles, keygen_times, timeline, live,
      origin, log>>

\* line 30: clock_gettime(CLOCK_MONOTONIC, &start_time)
ClockStart ==
    /\ pc = "clock_start"
    /\ \E reading \in Readings : start_time' = reading
    /\ pc' = "clock_end"
    /\ UNCHANGED <<end_time, elapsed_time_ns, NotOfClock>>

\* line 61: clock_gettime(CLOCK_MONOTONIC, &end_time); the clock is
\* monotonic, the second reading is not earlier than the first
ClockEnd ==
    /\ pc = "clock_end"
    /\ \E reading \in Readings :
          /\ NotLater(start_time, reading)
          /\ end_time' = reading
    /\ pc' = "clock_elapsed"
    /\ UNCHANGED <<start_time, elapsed_time_ns, NotOfClock>>

\* line 62: elapsed_time_ns is computed
Elapsed ==
    /\ pc = "clock_elapsed"
    /\ elapsed_time_ns' = ElapsedNs(start_time, end_time)
    /\ pc' = "clock_done"
    /\ UNCHANGED <<start_time, end_time, NotOfClock>>

NextClock ==
    \/ ClockStart
    \/ ClockEnd
    \/ Elapsed

SpecClock ==
    InitClock /\ [][NextClock]_vars

\* ===================================================== the claims
\* What the specification says, written without the model's operators.

\* ignoreCount = floor(N * 0.2)
IgnoreCount(N) ==
    N \div 5

\* effectiveCount = N - 2 * ignoreCount
EffectiveCount(N) ==
    N - 2 * IgnoreCount(N)

\* the number of positions of seq that hold v
Occurrences(seq, x) ==
    Cardinality({k \in DOMAIN seq : seq[k] = x})

\* a and b hold the same values, each as often
SameValues(a, b) ==
    /\ Len(a) = Len(b)
    /\ \A k \in DOMAIN a : Occurrences(a, a[k]) = Occurrences(b, a[k])

Ascending(seq) ==
    \A k \in 1..(Len(seq) - 1) : seq[k] <= seq[k + 1]

\* sorted positions ignoreCount .. N-ignoreCount-1
WindowOf(sorted) ==
    SubSeq(sorted, IgnoreCount(Len(sorted)) + 1, Len(sorted) - IgnoreCount(Len(sorted)))

\* Q1 and Q3, read from the full sorted array
Q1Of(sorted) ==
    sorted[IgnoreCount(Len(sorted)) + (EffectiveCount(Len(sorted)) \div 4) + 1]

Q3Of(sorted) ==
    sorted[IgnoreCount(Len(sorted)) + ((3 * EffectiveCount(Len(sorted))) \div 4) + 1]

\* x lies in [Q1 - 1.5*IQR, Q3 + 1.5*IQR]
InBandOf(sorted, x) ==
    LET IQR == Q3Of(sorted) - Q1Of(sorted)
    IN  /\ 2 * Q1Of(sorted) - 3 * IQR <= 2 * x
        /\ 2 * x <= 2 * Q3Of(sorted) + 3 * IQR

\* the valid set: the window values inside the band
ValidSetOf(sorted) ==
    LET inBand(x) == InBandOf(sorted, x)
    IN  SelectSeq(WindowOf(sorted), inBand)

RECURSIVE SeqSum(_)
SeqSum(seq) ==
    IF seq = <<>> THEN 0 ELSE Head(seq) + SeqSum(Tail(seq))

RECURSIVE SeqSumSq(_)
SeqSumSq(seq) ==
    IF seq = <<>> THEN 0 ELSE Head(seq) * Head(seq) + SeqSumSq(Tail(seq))

\* k * the sum of (x - S/k)^2 over seq, S its sum and k its length
KTimesSqDev(seq) ==
    Len(seq) * SeqSumSq(seq) - SeqSum(seq) * SeqSum(seq)

SeqMin(seq) ==
    CHOOSE x \in {seq[k] : k \in DOMAIN seq} : \A k \in DOMAIN seq : x <= seq[k]

SeqMax(seq) ==
    CHOOSE x \in {seq[k] : k \in DOMAIN seq} : \A k \in DOMAIN seq : x >= seq[k]

\* calculate_statistics has returned for the array in keygen_cycles
Calculated ==
    pc \in {"plot", "next"} /\ stats.num_runs = Len(keygen_cycles)

\* C1: for N >= 1 the sum, the count and the squared-deviation loops of
\* calculate_statistics all range over the valid set (the values at sorted
\* positions ignoreCount .. N-ignoreCount-1 inside [Q1-1.5*IQR, Q3+1.5*IQR],
\* Q1 and Q3 read from the full sorted array) and mean = sum / validCount.
C1_MeanOverValidSet ==
    (Calculated /\ stats.num_runs >= 1) =>
        LET sorted == stats.sorted_cycles
            V      == ValidSetOf(sorted)
            k      == Len(V)
        IN  /\ Ascending(sorted)
            /\ SameValues(sorted, keygen_cycles)
            /\ stats.ignore_runs = IgnoreCount(stats.num_runs)
            /\ stats.q1 = Q1Of(sorted)
            /\ stats.q3 = Q3Of(sorted)
            /\ stats.sum = SeqSum(V)
            /\ stats.valid_runs = k
            /\ stats.mean.d > 0
            /\ stats.mean.n * k = SeqSum(V) * stats.mean.d
            /\ stats.sum_sq_diff.d > 0
            /\ stats.sum_sq_diff.n * k = KTimesSqDev(V) * stats.sum_sq_diff.d

\* a call with a band wider than a point that rejects a value, and a mean
\* that is not a whole number
C1_Witness ==
    /\ Calculated
    /\ stats.ignore_runs >= 1
    /\ stats.iqr > 0
    /\ stats.valid_runs < stats.effective_runs
    /\ stats.mean.d > 1

\* C6: for N >= 1 the Q1 and Q3 indices lie in ignoreCount .. N-ignoreCount-1,
\* so inside the sorted array of length N.
C6_QuartileIndicesInWindow ==
    (Calculated /\ stats.num_runs >= 1) =>
        \A idx \in {stats.q1_index, stats.q3_index} :
            /\ idx >= IgnoreCount(stats.num_runs)
            /\ idx <= stats.num_runs - IgnoreCount(stats.num_runs) - 1
            /\ idx >= 0
            /\ idx < Len(stats.sorted_cycles)

\* a call with effectiveCount < 4 and a trimmed head and tail
C6_Witness ==
    /\ Calculated
    /\ stats.ignore_runs >= 1
    /\ stats.effective_runs < 4
    /\ stats.q1_index < stats.q3_index

\* C8: the standard deviation is the population standard deviation of the
\* valid set: its square times validCount is the sum of (x - mean)^2.
C8_PopulationStdDev ==
    (Calculated /\ stats.num_runs >= 1) =>
        LET V == ValidSetOf(stats.sorted_cycles)
            k == Len(V)
            r == stats.std_dev.sqrt_of
        IN  /\ r.d > 0
            /\ r.n >= 0
            /\ r.n * k * k = KTimesSqDev(V) * r.d

\* a call whose valid set has a positive variance and leaves values out
C8_Witness ==
    /\ Calculated
    /\ stats.valid_runs >= 2
    /\ stats.valid_runs < stats.effective_runs
    /\ stats.std_dev.sqrt_of.n > 0

\* C9: 0 <= validCount <= effectiveCount = N - 2*ignoreCount.
C9_ValidCountBounded ==
    Calculated =>
        /\ stats.effective_runs = stats.num_runs - 2 * stats.ignore_runs
        /\ stats.effective_runs = EffectiveCount(Len(keygen_cycles))
        /\ 0 <= stats.valid_runs
        /\ stats.valid_runs <= stats.effective_runs

\* a call that trims and whose band rejects part of the window
C9_Witness ==
    /\ Calculated
    /\ stats.ignore_runs >= 1
    /\ 0 < stats.valid_runs
    /\ stats.valid_runs < stats.effective_runs

\* C10: the mean lies within [min(validSet), max(validSet)].
C10_MeanWithinValidSet ==
    (Calculated /\ stats.num_runs >= 1) =>
        LET V == ValidSetOf(stats.sorted_cycles)
        IN  /\ V # <<>>
            /\ stats.mean.d > 0
            /\ SeqMin(V) * stats.mean.d <= stats.mean.n
            /\ stats.mean.n <= SeqMax(V) * stats.mean.d

\* a call whose mean is strictly inside the valid set's range, with values
\* of the window rejected by the band
C10_Witness ==
    /\ Calculated
    /\ stats.valid_runs < stats.effective_runs
    /\ LET V == ValidSetOf(stats.sorted_cycles)
       IN  /\ V # <<>>
           /\ SeqMin(V) * stats.mean.d < stats.mean.n
           /\ stats.mean.n < SeqMax(V) * stats.mean.d

\* the values charted, in chart order
ChartedValues ==
    [k \in 1..Len(chart.points) |-> chart.points[k].y]

Plotted ==
    pc = "next" /\ chart.n >= 0 /\ stats.num_runs = Len(keygen_cycles)

\* C2 as stated: the charted values are the values at sorted positions
\* ignoreCount .. N-ignoreCount-1, the window calculate_statistics filters.
C2_ChartIsSortedWindow ==
    Plotted => SameValues(ChartedValues, WindowOf(stats.sorted_cycles))

\* C2 amended: the chart gets the effectiveCount samples of runs
\* ignoreCount+1 .. N-ignoreCount in run order (positions ignoreCount ..
\* N-ignoreCount-1 of the unsorted array), none removed by the IQR band; it
\* is as long as the window calculate_statistics filters and holds the same
\* values as that window when ignoreCount = 0.
C2_ChartIsRunOrderWindow ==
    Plotted =>
        LET ic == IgnoreCount(Len(keygen_cycles))
        IN  /\ chart.n = EffectiveCount(Len(keygen_cycles))
            /\ chart.n = stats.effective_runs
            /\ Len(chart.points) = chart.n
            /\ ChartedValues = SubSeq(keygen_cycles, ic + 1, Len(keygen_cycles) - ic)
            /\ (ic = 0 => SameValues(ChartedValues, WindowOf(stats.sorted_cycles)))

\* a chart of a trimmed array whose values differ from the sorted window and
\* which shows a value the band rejected
C2_Witness ==
    /\ Plotted
    /\ stats.ignore_runs >= 1
    /\ stats.valid_runs < chart.n
    /\ ~SameValues(ChartedValues, WindowOf(stats.sorted_cycles))

\* the values of seq, as a set
Values(seq) ==
    {seq[k] : k \in DOMAIN seq}

\* C3 as stated: in Scenario B the value 100000 is inside the head/tail
\* window, outside the IQR band, and validCount = 29.
C3_ScenarioB_OutlierRejectedByBand ==
    (Calculated /\ keygen_cycles = ScenarioB) =>
        /\ 100000 \in Values(WindowOf(stats.sorted_cycles))
        /\ ~InBandOf(stats.sorted_cycles, 100000)
        /\ stats.valid_runs = 29

\* C3 amended: in Scenario B the sort puts 100000 at sorted position 49,
\* outside the head/tail window (positions 10..39, the values 11..25 and
\* 27..41); Q1 = 18, Q3 = 34, all 30 window values are in the band
\* [-6, 58], so validCount = 30, 100000 is not in the valid set, mean = 26.
C3_ScenarioB_OutlierTrimmedByWindow ==
    (Calculated /\ keygen_cycles = ScenarioB) =>
        /\ stats.sorted_cycles[49 + 1] = 100000
        /\ SubSeq(stats.sorted_cycles, stats.ignore_runs + 1, stats.num_runs - stats.ignore_runs)
              = [k \in 1..30 |-> IF k <= 15 THEN k + 10 ELSE k + 11]
        /\ stats.q1 = 18
        /\ stats.q3 = 34
        /\ 2 * stats.q1 - 3 * stats.iqr = -12
        /\ 2 * stats.q3 + 3 * stats.iqr = 116
        /\ stats.valid_runs = 30
        /\ 100000 \notin Values(ValidSetOf(stats.sorted_cycles))
        /\ stats.mean = RatInt(26)

\* calculate_statistics has returned for Scenario B
C3_Witness ==
    /\ Calculated
    /\ keygen_cycles = ScenarioB
    /\ stats.num_runs = NUM_ITERATIONS
    /\ stats.valid_runs = stats.effective_runs

\* C4: Scenario A: window 11..40, Q1 = 18, Q3 = 33, IQR = 15, band
\* [-4.5, 55.5], validCount = 30, mean = 25.5, sum of squared deviations
\* 2247.5, standard deviation sqrt(2247.5 / 30).
C4_ScenarioA ==
    (Calculated /\ keygen_cycles = ScenarioA) =>
        /\ SubSeq(stats.sorted_cycles, stats.ignore_runs + 1, stats.num_runs - stats.ignore_runs)
              = [k \in 1..30 |-> k + 10]
        /\ stats.q1 = 18
        /\ stats.q3 = 33
        /\ stats.iqr = 15
        /\ 2 * stats.q1 - 3 * stats.iqr = -9
        /\ 2 * stats.q3 + 3 * stats.iqr = 111
        /\ stats.valid_runs = 30
        /\ stats.sum = 765
        /\ stats.mean = Rat(51, 2)
        /\ stats.sum_sq_diff = Rat(4495, 2)
        /\ stats.std_dev = Sqrt(Rat(4495, 60))

\* calculate_statistics has returned for Scenario A
C4_Witness ==
    /\ Calculated
    /\ keygen_cycles = ScenarioA
    /\ stats.num_runs = NUM_ITERATIONS
    /\ stats.sorted_cycles = ScenarioA

\* C7: for N = 50, ignoreCount = 10, effectiveCount = 30, and Q1 and Q3 are
\* read at indices 17 and 32 (0-based) of the full sorted array.
C7_IndicesForFifty ==
    (Calculated /\ stats.num_runs = 50) =>
        /\ stats.ignore_runs = 10
        /\ stats.effective_runs = 30
        /\ stats.q1_index = 17
        /\ stats.q3_index = 32
        /\ Len(stats.sorted_cycles) = 50
        /\ Ascending(stats.sorted_cycles)
        /\ stats.q1 = stats.sorted_cycles[17 + 1]
        /\ stats.q3 = stats.sorted_cycles[32 + 1]

\* a call with 50 samples that arrive in decreasing order, one an outlier
C7_Witness ==
    /\ Calculated
    /\ stats.num_runs = 50
    /\ keygen_cycles = Reversed(ScenarioB)
    /\ stats.q1_index = 17
    /\ stats.q3 = 34

\* C5: whenever the valid set is empty, calculate_statistics and main signal
\* an error, no summary is printed for the curve, and the mean is not the
\* result of a division by zero.
C5_NoValidSamplesIsAnError ==
    (stats # NoStats /\ stats.valid_runs = 0) =>
        /\ stderr # <<>>
        /\ summaries = <<>>
        /\ printed = <<>>
        /\ keygen_mean # NaN

CallsOf(call, alg) ==
    {k \in DOMAIN log : log[k].call = call /\ log[k].variant = alg}

\* the verify_signature calls that did not return success
FailedVerifications ==
    {k \in DOMAIN log : log[k].call = "verify_signature" /\ log[k].text # 1}

\* C12: a verification that does not succeed in run j of an algorithm ends
\* the program at once with a failure status: it is the last call made, the
\* run's signing was the call before it, no later run has signed or verified,
\* the algorithm has no summary and no chart, and nothing happens afterwards.
C12_FailedVerificationIsFatal ==
    /\ [](\A k \in FailedVerifications :
             /\ k = Len(log)
             /\ pc = "exit_failure"
             /\ stderr # <<>>
             /\ log[k].variant = i /\ log[k].run = j
             /\ log[k - 1].call = "sign_xml"
             /\ log[k - 1].variant = i /\ log[k - 1].run = j
             /\ Cardinality(CallsOf("sign_xml", i)) = j + 1
             /\ Cardinality(CallsOf("verify_signature", i)) = j + 1
             /\ \A n \in DOMAIN summaries : summaries[n].variant # i
             /\ \A n \in DOMAIN charts : charts[n].variant # i)
    /\ [][pc # "exit_failure"]_vars

\* the verification of a later run of a later algorithm has failed, the
\* earlier algorithms have their summaries
C12_Witness ==
    /\ FailedVerifications # {}
    /\ pc = "exit_failure"
    /\ i >= 1
    /\ j >= 1
    /\ Len(summaries) = 2 * i

\* C13: a failure of an external call of a run is fatal.  EVP_SignUpdate is
\* such a call: a signature made after it failed is a signature over nothing,
\* and the run that made it gets no further than its verification, where the
\* process exits; no later run begins and no summary is computed with it.
C13_EveryFailureIsFatal ==
    signature.over = "nothing" => pc \in {"sig_verify", "exit_failure"}

\* ------------------------------------------- the sweep of the Kyber variants
\* the messages that report a failed call of an iteration
IterationErrors ==
    KyberKeygenErrors(variants[v + 1]) \cup EncapsulateErrors \cup DecapsulateErrors

\* the message has x among the values it prints
Prints(msg, x) ==
    \E k \in DOMAIN msg.args : msg.args[k] = x

\* the message belongs to one operation only
TellsOperation(msg) ==
    Cardinality({errors \in {KyberKeygenErrors(variants[v + 1]), EncapsulateErrors,
                             DecapsulateErrors} : msg \in errors}) = 1

\* C14: the error written when an iteration fails tells the variant, the
\* operation and the index of the iteration that failed.
C14_ErrorTellsVariantOperationRun ==
    \A k \in DOMAIN stderr :
        stderr[k] \in IterationErrors =>
            /\ TellsOperation(stderr[k])
            /\ Prints(stderr[k], variants[v + 1])
            /\ Prints(stderr[k], ToString(i))

\* ------------------------------------------------ the sweep of the curves
\* C15: a configuration whose effectiveCount = N - 2 * floor(N * 0.2) is not
\* positive is rejected before anything is run: no key pair is generated for
\* it, no statistic is computed, nothing is printed or charted, and the
\* program does not end with success.
C15_EmptyConfigurationIsRejected ==
    EffectiveCount(num_iterations) <= 0 =>
        /\ ecdh_key = NULL
        /\ stats.num_runs < 0
        /\ summaries = <<>>
        /\ charts = <<>>
        /\ pc # "done"

\* ---------------------------------------------------------- both sweeps
\* the live objects that were made in a run: a key pair, a context, a
\* ciphertext, a shared-secret buffer, a signature buffer
MadeInARun(objects) ==
    {object \in objects : object.run >= 0}

\* a run is about to begin
AtRunStart ==
    pc \in {"kem_keygen", "sig_sign"}

\* C16: when a run begins, nothing made in an earlier run is live, and at no
\* time are more objects of runs live than one run makes (a key pair, a
\* ciphertext and two shared-secret buffers).
C16_RunsLeaveNothingLive ==
    /\ AtRunStart => MadeInARun(live) = {}
    /\ Cardinality(MadeInARun(live)) <= 4

\* a later run of a later variant or algorithm begins; runs before it made
\* and freed their objects
C16_Witness ==
    /\ AtRunStart
    /\ i >= 1
    /\ (v >= 1 \/ j >= 1)
    /\ Len(log) >= 4
    /\ MadeInARun(live) = {}
    /\ live # {}

\* ------------------------------------------- the sweep of the Kyber variants
\* the history entries of a call
Calls(call) ==
    {k \in DOMAIN log : log[k].call = call}

\* the two entries belong to the same iteration of the same variant
SameIteration(a, b) ==
    log[a].variant = log[b].variant /\ log[a].run = log[b].run

\* C17: every encapsulation and every decapsulation works with the key pair
\* generated earlier in its own iteration, no key pair serves the
\* encapsulation or decapsulation of two iterations, and the ciphertext a
\* decapsulation is given is the one the encapsulation of its own iteration
\* made with that key pair.
C17_KeyPairOfItsOwnIteration ==
    /\ \A e \in Calls("encapsulate_key") \cup Calls("decapsulate_key") :
          /\ \E g \in Calls("generate_kyber_key") :
                g < e /\ SameIteration(g, e) /\ log[g].key = log[e].key
          /\ \A f \in Calls("encapsulate_key") \cup Calls("decapsulate_key") :
                log[f].key = log[e].key => SameIteration(f, e)
    /\ \A d \in Calls("decapsulate_key") :
          \E e \in Calls("encapsulate_key") :
              /\ e < d
              /\ SameIteration(e, d)
              /\ log[e].key = log[d].key
              /\ log[e].text = log[d].text
    /\ \A e \in Calls("encapsulate_key"), f \in Calls("encapsulate_key") :
          log[e].text = log[f].text => e = f

\* the second iteration of a later variant has decapsulated
C17_Witness ==
    \E d \in Calls("decapsulate_key") :
        /\ log[d].variant >= 1
        /\ log[d].run >= 1
        /\ log[d].key = Object("pkey", log[d].variant, log[d].run)
        /\ pc = "kem_cleanup"

\* ---------------------------------------------------------- both sweeps
\* calculate_statistics or plot_cycles is about to be called on the arrays
BeforeStatisticsOrChart ==
    pc \in {"kem_calculate", "kem_calculate_encaps", "kem_calculate_decaps",
            "kem_plot", "sig_calculate", "sig_plot"}

\* the variant, or the algorithm, the sweep is at
CurrentVariant ==
    IF pc \in {"sig_calculate", "sig_plot"} THEN i ELSE v

\* C18: when calculate_statistics or plot_cycles is called for an operation
\* of a variant, the operation's array has N slots and slot k (counted from
\* 0) holds the measurement of run k + 1 of that variant: no slot is left
\* from an earlier variant and none is unwritten.
C18_ArrayHoldsTheRunsOfTheVariant ==
    BeforeStatisticsOrChart =>
        \A operation \in DOMAIN origin :
            /\ Len(origin[operation]) = num_iterations
            /\ \A k \in 0..(num_iterations - 1) :
                  origin[operation][k + 1] = WrittenIn(CurrentVariant, k)

\* the arrays of a later Kyber variant are complete; they were full of the
\* measurements of the variant before
C18_Witness ==
    /\ BeforeStatisticsOrChart
    /\ v >= 1
    /\ CurrentVariant = v
    /\ num_iterations >= 2
    /\ \A operation \in DOMAIN origin :
          origin[operation][num_iterations] = WrittenIn(CurrentVariant, num_iterations - 1)

\* ------------------------------------------- the sweep of the Kyber variants
\* the timed calls of the iterations
TimedCalls ==
    {"generate_kyber_key", "encapsulate_key", "decapsulate_key"}

\* the place of an operation in the order of the operations
Place(operation) ==
    CHOOSE k \in DOMAIN KemOperations : KemOperations[k] = operation

\* the history entries before entry m that are this call for this
\* operation of this variant
Before(m, calls, variant, operation) ==
    {k \in 1..(m - 1) : /\ log[k].call \in calls
                        /\ log[k].variant = variant
                        /\ log[k].operation = operation}

\* C19: within a variant the operations are handled one after another: when
\* a timed iteration of an operation runs, the operation before it has had
\* all its N timed iterations, its statistics, its summary and its chart.
C19_OperationsOneAfterAnother ==
    \A m \in DOMAIN log :
        (log[m].call \in TimedCalls /\ Place(log[m].operation) > 1) =>
            LET earlier == KemOperations[Place(log[m].operation) - 1]
            IN  /\ Cardinality(Before(m, TimedCalls, log[m].variant, earlier))
                       = num_iterations
                /\ Before(m, {"calculate_statistics"}, log[m].variant, earlier) # {}
                /\ Before(m, {"printf"}, log[m].variant, earlier) # {}
                /\ Before(m, {"plot_cycles"}, log[m].variant, earlier) # {}

\* the history entries that are this call
IterationsOf(call) ==
    {k \in DOMAIN log : log[k].call = call}

\* the runs of variant w in which the call was made
RunsOf(call, w) ==
    {log[k].run : k \in {m \in IterationsOf(call) : log[m].variant = w}}

\* exactly one output per (variant, operation), in the order of the variants
OncePerVariantAndOperation(outputs) ==
    /\ Len(outputs) = NUM_VARIANTS * Len(KemOperations)
    /\ \A w \in 0..(NUM_VARIANTS - 1) : \A k \in DOMAIN KemOperations :
          Cardinality({m \in DOMAIN outputs :
                          outputs[m] = [variant |-> w, operation |-> KemOperations[k]]}) = 1
    /\ \A k, m \in DOMAIN outputs : k < m => outputs[k].variant <= outputs[m].variant

\* every summary and every chart of the variant before that of entry m
\* has been put out before entry m
OutputsOfVariantBefore(m) ==
    \A k \in DOMAIN KemOperations :
        /\ Before(m, {"printf"}, log[m].variant - 1, KemOperations[k]) # {}
        /\ Before(m, {"plot_cycles"}, log[m].variant - 1, KemOperations[k]) # {}

\* main has returned 0 after V*N iterations, one summary and one chart per
\* (variant, operation)
SweepComplete ==
    /\ stderr = <<>>
    /\ \A call \in TimedCalls :
          /\ Cardinality(IterationsOf(call)) = NUM_VARIANTS * num_iterations
          /\ \A w \in 0..(NUM_VARIANTS - 1) : RunsOf(call, w) = 0..(num_iterations - 1)
    /\ OncePerVariantAndOperation(summaries)
    /\ OncePerVariantAndOperation(charts)

\* the places of main inside one pass of the loop over i, in order
InIteration ==
    <<"kem_keygen", "kem_encaps", "kem_decaps", "kem_cleanup">>

\* the places of main after the loop over i, in order
AfterIterations ==
    <<"kem_calculate", "kem_calculate_encaps", "kem_calculate_decaps",
      "kem_plot", "kem_next">>

\* the place of a value in a sequence without repetition
PlaceIn(seq, x) ==
    CHOOSE k \in DOMAIN seq : seq[k] = x

\* the steps main makes for one variant
StepsOfVariant ==
    Len(InIteration) * num_iterations + Len(AfterIterations)

\* how far main has come: the steps of a sweep without failure up to here
Progress ==
    IF pc = "exit_failure" THEN NUM_VARIANTS * StepsOfVariant + 2
    ELSE IF pc = "done" THEN NUM_VARIANTS * StepsOfVariant + 1
    ELSE IF pc = "kem_load" THEN 0
    ELSE IF \E k \in DOMAIN InIteration : InIteration[k] = pc
         THEN v * StepsOfVariant + Len(InIteration) * i + PlaceIn(InIteration, pc)
    ELSE v * StepsOfVariant + Len(InIteration) * num_iterations
             + PlaceIn(AfterIterations, pc)

\* calculate_statistics gives a result for the array: the steps of lines
\* 256-258 have no other condition than their place in main
Calculates(cycles) ==
    Evaluated(calculate_statistics(cycles, num_iterations, 0, 0))

\* main has a next step in which no call fails
HasNextStep ==
    \/ ENABLED (\/ KemLoadProvider
                \/ KemGenerateKey
                \/ Encapsulate
                \/ Decapsulate
                \/ CleanUp
                \/ KemPlot
                \/ NextVariant
                \/ KemFinish)
    \/ pc = "kem_calculate" /\ Calculates(keygen_cycles)
    \/ pc = "kem_calculate_encaps" /\ Calculates(encaps_cycles)
    \/ pc = "kem_calculate_decaps" /\ Calculates(decaps_cycles)

\* C20: when no call fails, the sweep over the V variants makes exactly V*N
\* iterations, puts out exactly one summary and one chart per (variant,
\* operation) in the order of the variants, every output of a variant before
\* the first iteration of the next one, and then main returns 0: until it
\* has returned main always has a next step in which no call fails, and
\* every step brings it nearer to the end, so it ends, with 0 when no call
\* has failed.
C20_SweepCompletes ==
    /\ [](pc = "done" => SweepComplete)
    /\ [](\A m \in DOMAIN log :
             (log[m].call \in TimedCalls /\ log[m].variant >= 1)
                 => OutputsOfVariantBefore(m))
    /\ [](pc \notin {"done", "exit_failure"} => HasNextStep)
    /\ [](pc = "exit_failure" => stderr # <<>>)
    /\ [][Progress' > Progress]_vars

\* main has returned 0 after a sweep of two iterations per variant
C20_Witness ==
    /\ pc = "done"
    /\ v = NUM_VARIANTS
    /\ num_iterations >= 2
    /\ stderr = <<>>
    /\ Len(summaries) = NUM_VARIANTS * Len(KemOperations)

C23_SortIsAscendingPermutation ==
    /\ pc = "calculate" => Len(SortCycles(keygen_cycles)) = Len(keygen_cycles)
    /\ Calculated =>
          /\ stats.sorted_cycles = SortCycles(keygen_cycles)
          /\ Len(stats.sorted_cycles) = stats.num_runs
          /\ Ascending(stats.sorted_cycles)
          /\ SameValues(stats.sorted_cycles, keygen_cycles)
          /\ Values(stats.sorted_cycles) = Values(keygen_cycles)

\* an array with a value that occurs twice, its largest value first and its
\* smallest last, has been sorted
C23_Witness ==
    /\ Calculated
    /\ Len(keygen_cycles) >= 4
    /\ Cardinality(Values(keygen_cycles)) < Len(keygen_cycles)
    /\ Cardinality(Values(keygen_cycles)) >= 3
    /\ keygen_cycles[1] = SeqMax(keygen_cycles)
    /\ keygen_cycles[Len(keygen_cycles)] = SeqMin(keygen_cycles)
    /\ stats.sorted_cycles # keygen_cycles

\* -------------------------------------------- the copies of the engine
\* the whole numbers an array of doubles holds
AsCycles(times) ==
    [k \in DOMAIN times |-> times[k].n]

\* the statistics of the time copy have been computed for keygen_times
TimesCalculated ==
    pc \in {"times_plot", "times_next"} /\ stats.num_runs = Len(keygen_times)

\* the positions of the window whose value the cycles copy finds in its band
ValidPositions(cyc) ==
    {k \in (cyc.ignore_runs + 1)..(cyc.num_runs - cyc.ignore_runs) :
        InBand(cyc.sorted_cycles[k], cyc.q1, cyc.q3, cyc.iqr)}

\* the positions of the window whose value the time copy finds in its band
TimesValidPositions(tim) ==
    {k \in (tim.ignore_runs + 1)..(tim.num_runs - tim.ignore_runs) :
        TimesInBand(tim.sorted_times[k], tim.q1, tim.q3, tim.iqr)}

\* C24: the copy of calculate_statistics that works on unsigned integers
\* (cycles) and the copy that works on doubles (times) trim alike: given the
\* same whole-number samples they have the same ignoreCount, the same Q1
\* and Q3 indices, the same sorted array, wherever a band is used (N >= 1)
\* the same Q1, Q3 and band limits, hence the same valid positions, the same
\* mean and the same sum of squared deviations.
C24_CopiesAgree ==
    TimesCalculated =>
        LET cyc == calculate_statistics(AsCycles(keygen_times), Len(keygen_times), 0, 0)
        IN  /\ stats.ignore_runs = cyc.ignore_runs
            /\ stats.effective_runs = cyc.effective_runs
            /\ stats.q1_index = cyc.q1_index
            /\ stats.q3_index = cyc.q3_index
            /\ stats.sorted_times = AsDoubles(cyc.sorted_cycles)
            /\ stats.num_runs >= 1 =>
                  /\ stats.q1 = RatInt(cyc.q1)
                  /\ stats.q3 = RatInt(cyc.q3)
                  /\ stats.iqr = RatInt(cyc.iqr)
                  /\ RatSub(stats.q1, RatMul(IQR_MULTIPLIER, stats.iqr))
                        = Rat(2 * cyc.q1 - IQR_MULTIPLIER_HALVES * cyc.iqr, 2)
                  /\ RatAdd(stats.q3, RatMul(IQR_MULTIPLIER, stats.iqr))
                        = Rat(2 * cyc.q3 + IQR_MULTIPLIER_HALVES * cyc.iqr, 2)
            /\ TimesValidPositions(stats) = ValidPositions(cyc)
            /\ stats.valid_runs = cyc.valid_runs
            /\ stats.sum = RatInt(cyc.sum)
            /\ stats.mean = cyc.mean
            /\ stats.sum_sq_diff = cyc.sum_sq_diff
            /\ stats.std_dev = cyc.std_dev

\* the time copy has trimmed an array, its band has rejected a value of the
\* window, and the mean is not a whole number
C24_Witness ==
    /\ TimesCalculated
    /\ stats.ignore_runs >= 1
    /\ RatGreater(stats.iqr, RatInt(0))
    /\ stats.valid_runs < stats.effective_runs
    /\ stats.valid_runs >= 2
    /\ stats.mean.d > 1

\* ------------------------------------------------------ the timed regions
\* the clock readings that start a region less those that end one, among
\* the first k entries of the iteration's history
OpenRegions(k) ==
    Cardinality({m \in 1..k : timeline[m].kind = "start"})
        - Cardinality({m \in 1..k : timeline[m].kind = "end"})

\* the last reading that starts a region, before entry k
LastStart(k) ==
    CHOOSE m \in 1..k :
        /\ timeline[m].kind = "start"
        /\ \A n \in (m + 1)..k : timeline[n].kind # "start"

\* C25: in every iteration a timed region holds exactly one call of the
\* function that is measured, between one start reading and one end
\* reading; no region is opened while another is open; and every release of
\* a resource of the iteration comes after the end reading, outside every
\* region.
C25_RegionHoldsOnlyTheOperation ==
    \A k \in DOMAIN timeline :
        /\ OpenRegions(k) \in {0, 1}
        /\ timeline[k].kind = "end" =>
              Cardinality({m \in LastStart(k)..k : timeline[m].kind = "invoke"}) = 1
        /\ timeline[k].kind = "invoke" => OpenRegions(k) = 1
        /\ timeline[k].kind = "release" => OpenRegions(k) = 0

\* ------------------------------------------------ the elapsed nanoseconds
\* the whole seconds and the nanoseconds below a second between two
\* readings, a second borrowed when the later reading has the smaller
\* nanoseconds
WholeSeconds(start, end) ==
    IF end.tv_nsec < start.tv_nsec
    THEN end.tv_sec - start.tv_sec - 1
    ELSE end.tv_sec - start.tv_sec

RestNanoseconds(start, end) ==
    IF end.tv_nsec < start.tv_nsec
    THEN end.tv_nsec + NSEC_PER_SEC - start.tv_nsec
    ELSE end.tv_nsec - start.tv_nsec

\* the nanoseconds between two readings as a natural number, none of its
\* bytes dropped
TrueElapsed(start, end) ==
    Trimmed(NatAdd(NatMul(Digits(WholeSeconds(start, end)), Digits(NSEC_PER_SEC)),
                   Digits(RestNanoseconds(start, end))))

\* C26: for two readings of the monotonic clock, the first not later than
\* the second and their nanoseconds within 0..999999999, the expression of
\* line 62 in 64-bit unsigned arithmetic is the true number of nanoseconds
\* between them, a number that is not negative and fits in 64 bits, also
\* when the second reading has the smaller nanoseconds.
C26_ElapsedIsTrueDuration ==
    pc = "clock_done" =>
        /\ NotLater(start_time, end_time)
        /\ WholeSeconds(start_time, end_time) >= 0
        /\ RestNanoseconds(start_time, end_time) \in 0..(NSEC_PER_SEC - 1)
        /\ Len(TrueElapsed(start_time, end_time)) <= WordBytes
        /\ elapsed_time_ns = Wrap(TrueElapsed(start_time, end_time))

\* a second has been borrowed: the second reading has the smaller
\* nanoseconds, and a long time lies between the readings
C26_Witness ==
    /\ pc = "clock_done"
    /\ end_time.tv_nsec < start_time.tv_nsec
    /\ end_time.tv_sec - start_time.tv_sec > MaxSec
    /\ elapsed_time_ns = Wrap(TrueElapsed(start_time, end_time))
    /\ Len(TrueElapsed(start_time, end_time)) > WordBytes \div 2

\* ------------------------------------------------- the divisor valid_runs
\* C27: for every array of N >= 1 samples valid_runs >= 1: the element at
\* the Q1 index lies inside the window that is left when the head and the
\* tail are ignored, and inside the band, as q1 <= q3 makes iqr >= 0; the
\* division sum / valid_runs has a divisor that is not zero, and the mean
\* is a number.
C27_ValidCountAtLeastOne ==
    (Calculated /\ stats.num_runs >= 1) =>
        /\ stats.ignore_runs <= stats.q1_index
        /\ stats.q1_index < stats.num_runs - stats.ignore_runs
        /\ stats.q1 = stats.sorted_cycles[stats.q1_index + 1]
        /\ stats.q1 <= stats.q3
        /\ stats.iqr >= 0
        /\ 2 * stats.q1 - IQR_MULTIPLIER_HALVES * stats.iqr <= 2 * stats.q1
        /\ 2 * stats.q1 <= 2 * stats.q3 + IQR_MULTIPLIER_HALVES * stats.iqr
        /\ stats.valid_runs >= 1
        /\ IsNumber(stats.mean)
        /\ stats.mean = Rat(stats.sum, stats.valid_runs)

\* the band is a single value, q1 = q3, and it rejects a sample of the
\* window: the count is kept above zero by the samples equal to q1
C27_Witness ==
    /\ Calculated
    /\ stats.num_runs >= 1
    /\ stats.iqr = 0
    /\ stats.valid_runs >= 1
    /\ stats.valid_runs < stats.effective_runs

\* ------------------------------------------- the summary of a multiset
\* the samples of seq from x up to top in ascending order, each as often as
\* seq holds it: the one ascending arrangement of the multiset of seq
RECURSIVE ArrangedFrom(_, _, _)
ArrangedFrom(seq, x, top) ==
    IF x > top
    THEN <<>>
    ELSE [k \in 1..Occurrences(seq, x) |-> x] \o ArrangedFrom(seq, x + 1, top)

Arranged(seq) ==
    ArrangedFrom(seq, 0, MaxVal)

\* the results of a call: valid_runs, the mean and the standard deviation
ResultsOf(s) ==
    <<s.valid_runs, s.mean, s.std_dev>>

\* C28: the summary depends on the multiset of the samples only: for every
\* array of samples, calculate_statistics returns the valid_runs, the mean
\* and the standard deviation that it returns for the ascending arrangement
\* of the same samples, and the array read backwards has the same sorted
\* copy; as every array of the bound is a start, any two arrangements of one
\* multiset have the same results.
C28_SummaryOfTheMultiset ==
    (pc = "plot" /\ stats.num_runs = Len(keygen_cycles) /\ stats.num_runs >= 1) =>
        /\ stats.sorted_cycles = Arranged(keygen_cycles)
        /\ ResultsOf(stats)
              = ResultsOf(calculate_statistics(Arranged(keygen_cycles),
                                               stats.num_runs, 0, 0))
        /\ SortCycles(Reversed(keygen_cycles)) = stats.sorted_cycles

\* an array that is neither ascending nor descending, and whose band rejects
\* a sample
C28_Witness ==
    /\ pc = "plot"
    /\ stats.num_runs = Len(keygen_cycles)
    /\ keygen_cycles # Arranged(keygen_cycles)
    /\ Reversed(keygen_cycles) # Arranged(keygen_cycles)
    /\ stats.valid_runs < stats.effective_runs
    /\ stats.iqr > 0

\* ------------------------------------------- releases and uses of objects
\* the objects that the next step of main hands to a call that reads them
\* or releases them
UsedOrReleasedNext ==
    CASE pc = "kem_encaps"  -> {kyber_key}
      [] pc = "kem_decaps"  -> {kyber_key, ciphertext}
      [] pc = "kem_cleanup" -> {kyber_key, ciphertext, secret_enc, secret_dec}
      [] pc = "sig_sign"    -> {keys[i + 1]}
      [] pc = "sig_verify"  -> {keys[i + 1], signature.buffer} \ {NullObject}
      [] pc = "sig_free"    -> {signature.buffer} \ {NullObject}
      [] pc = "sig_next" /\ i + 1 >= num_algorithms -> {keys[k] : k \in DOMAIN keys}
      [] OTHER              -> {}

\* the places of the sign/verify sweep, from the first signing to the
\* release of the keys
InSigSweep ==
    pc \in {"sig_sign", "sig_verify", "sig_free", "sig_calculate", "sig_plot",
            "sig_next"}

\* an object handed out by an allocation: not live before, live after
Fresh(object, objects, objects_after) ==
    object \notin objects /\ object \in objects_after

\* C29: no resource is released twice and none is used after its release:
\* whatever the next step uses or releases is live; the four objects of an
\* iteration are four different objects when they are released; a key,
\* ciphertext, secret or signature pointer that is assigned holds a fresh
\* allocation; the keys of the sign/verify sweep are different live objects
\* from the first signing until they are released after the sweep; and
\* when main returns nothing is live.
C29_NoDoubleFreeNoUseAfterFree ==
    /\ [](UsedOrReleasedNext \subseteq live)
    /\ [](pc = "kem_cleanup" =>
             Cardinality({kyber_key, ciphertext, secret_enc, secret_dec}) = 4)
    /\ [](InSigSweep =>
             /\ Len(keys) = num_algorithms
             /\ Cardinality({keys[k] : k \in DOMAIN keys}) = num_algorithms
             /\ \A k \in DOMAIN keys : keys[k] \in live)
    /\ [](pc = "done" => live = {})
    /\ [][/\ (pc = "kem_keygen" /\ pc' = "kem_encaps") =>
                Fresh(kyber_key', live, live')
          /\ (pc = "kem_encaps" /\ pc' = "kem_decaps") =>
                /\ Fresh(ciphertext', live, live')
                /\ Fresh(secret_enc', live, live')
          /\ (pc = "kem_decaps" /\ pc' = "kem_cleanup") =>
                Fresh(secret_dec', live, live')
          /\ (pc = "sig_genkeys" /\ pc' # "exit_failure") =>
                Fresh(keys'[Len(keys')], live, live')
          /\ (pc = "sig_sign" /\ pc' = "sig_verify") =>
                \/ signature'.buffer = NullObject
                \/ Fresh(signature'.buffer, live, live')
          /\ (pc = "kem_cleanup") =>
                live' = live \ {kyber_key, ciphertext, secret_enc, secret_dec}
          /\ (pc = "sig_free") => live' = live \ {signature.buffer}]_vars

\* the signature of a later run of a later algorithm is about to be released:
\* it is live, and so is every key
C29_Witness ==
    /\ pc = "sig_free"
    /\ i >= 1
    /\ j >= 1
    /\ signature.buffer \in live
    /\ signature.buffer = Object("signature", i, j)
    /\ \A k \in DOMAIN keys : keys[k] \in live

\* ------------------------------------------- the divisor of the percentage
\* C30: for every array of N >= 1 samples, none negative, the mean that
\* calculate_statistics returns is above zero when main divides the standard
\* deviation by it, and the percentage that is printed is a number.
C30_MeanIsPositive ==
    (Calculated /\ stats.num_runs >= 1) =>
        /\ IsNumber(keygen_mean)
        /\ keygen_mean.n > 0
        /\ IsNumber(printed.percentage.sqrt_of)

=============================================================================
